---------------------------- MODULE Spec2Model ----------------------------
(***************************************************************************)
(* A model of the request-processing engine of the Thor framework          *)
(* (src/src/thor): the sliding-window rate limiter, the lifespan protocol  *)
(* handler with its in-flight counter and drain, the middleware chain      *)
(* composer and the chain of a Thor application, the radix-tree router     *)
(* with its sub-routers, the CSRF, CORS and timeout middleware, the        *)
(* session backends and session middleware, the file session backend in    *)
(* a directory shared by several workers, the request body reader, the     *)
(* Request objects a middleware and the handler build over one receive,    *)
(* the token and JWT authentication backends with their middleware, and    *)
(* the emission of responses.                                              *)
(*                                                                         *)
(* The engine is asyncio code: a coroutine runs without interruption from  *)
(* one await to the next, so every action below is the code between two    *)
(* awaits of one task; the workers sharing a session directory are         *)
(* processes, whose file-system calls interleave.  Each component has its  *)
(* own specification (SpecRateLimit, SpecLifespan, SpecLifespanFair,       *)
(* SpecChain, SpecThor, SpecRouter, SpecSubRouter, SpecCsrf, SpecBackend,  *)
(* SpecSession, SpecBody, SpecResponse, SpecTimeout, SpecCors,             *)
(* SpecFiles, SpecAuth, SpecRequestChain); a specification leaves the      *)
(* other components' variables at their constructed values.                *)
(***************************************************************************)
EXTENDS Integers, Sequences, FiniteSets, TLC

VARIABLES
    \* ---- RateLimitMiddleware (middleware/ratelimit.py) ----
    now,            \* time.monotonic(), in ticks of 1/TicksPerSec second
    max_requests,   \* self._max_requests
    window,         \* self._window (seconds)
    requests,       \* self._requests: client_ip -> list of timestamps
    rl_req,         \* the requests seen so far: client, position, result
    forwarded,      \* per client, the timestamps of the requests handed to self.app, in order
    \* ---- Lifespan / LifespanProtocolHandler (lifespan.py), Thor.__call__ (app.py) ----
    entrypoint,     \* which callable the host adapter was given: "handler" or "thor"
    n_startup,      \* len(lifespan._startup_handlers)
    n_shutdown,     \* len(lifespan._shutdown_handlers)
    inflight,       \* handler._inflight
    inflight_zero,  \* handler._inflight_zero (asyncio.Event): is it set
    shutting_down,  \* handler._shutting_down
    ls_pc,          \* position of the lifespan task
    ls_i,           \* index of the next startup / shutdown handler to run
    waiter,         \* the drain's Event.wait(): "none", "waiting" or "woken"
    timed_out,      \* the drain ended in asyncio.TimeoutError
    host,           \* the lifespan message the host adapter delivers next
    events,         \* what the lifespan task has done, in order: handlers run, messages sent
    task,           \* the HTTP/WebSocket request tasks: position, the callable that took them, how they ended
    at_shutdown,    \* the requests that were running when lifespan.shutdown was received
    \* ---- MiddlewareStack (middleware/base.py) ----
    middleware,     \* stack._middleware, in registration order
    chain,          \* the app returned by build(): the wrappers, outermost first
    built_from,     \* stack._middleware as it was when chain was built
    mw_pc,          \* position of the request travelling through chain
    mw_depth,       \* how many wrappers the request has entered
    mw_at,          \* the wrapper whose send is handling the response message in transit
    mw_msgs,        \* response messages the innermost caller still has to send
    seen_request,   \* the middleware that observed the request, in order
    seen_response,  \* per response message sent so far, the middleware that observed it, in order
    app_built,      \* Thor._app is not None: the application holds a built chain
    \* ---- Router / RadixTree / Route (routing.py) ----
    routes,         \* router._routes
    tree,           \* router._tree: the radix tree's nodes
    lookup,         \* the last lookup: its input and the tree's answer
    subrouters,     \* router._subrouters: the prefix of each include of the sub-router
    sub_routes,     \* the sub-router's own _routes
    tree_dirty,     \* router._tree_dirty
    include_pending, \* history: include_router was called since the last lookup
    \* ---- CSRFMiddleware (middleware/csrf.py) ----
    csrf_req,       \* the request being processed: path, method, cookie, header, content type, form field
    csrf_pc,        \* position of CSRFMiddleware.process for that request
    csrf_token,     \* cookie_token, as exposed in scope["csrf_token"] ("" before it is set)
    csrf_invoked,   \* self.app was called for the request
    csrf_resp,      \* the http.response.start that reached the client: status, Set-Cookie value
    \* ---- session backends (session.py) ----
    backend,        \* which SessionBackend is in use: "memory" or "file"
    sessions,       \* InMemorySessionBackend._sessions, or the <safe_id>.json files of FileSessionBackend
    be_result,      \* the last backend call made through the API and its outcome
    be_saved,       \* history: per id, the record of the last save(id, r) not followed by delete(id)
    \* ---- SessionMiddleware (session.py) ----
    sm_clock,       \* time.time(), in ticks
    sm_n,           \* requests processed so far
    sm_req,         \* the request in SessionMiddleware.process: position, cookie, session id and data
    sm_sent,        \* the session cookies issued, each with the tick of its response and the value its handler set
    sm_last,        \* history: per session id, the value last assigned by a handler
    \* ---- Request.body (request.py) ----
    rb_cfg,         \* the request: the body as sent (chunk lengths), its Content-Length and max_body_size
    rb_msgs,        \* the http.request messages receive() has yet to deliver
    rb_body,        \* Request._body (NoBody for None), as the chunk lengths joined
    rb_consumed,    \* Request._body_consumed
    rb_pc,          \* position of the current body() call
    rb_chunks,      \* the local `chunks` of the call in progress
    rb_calls,       \* body() calls made on the request
    rb_ret,         \* what the last call returned
    \* ---- response emission (response.py, app.py, middleware/error_handler.py) ----
    rs_plan,        \* what the request runs into: who answers, the chunks of a stream, where an exception is raised
    rs_pc,          \* position of the request between two sends
    rs_i,           \* chunks the streaming producer has yielded
    rs_host,        \* the messages that reached the host adapter's send, in order
    \* ---- TimeoutMiddleware under the error handler (middleware/timeout.py) ----
    to_timeout,     \* TimeoutMiddleware._timeout, in ticks
    to_pc,          \* position of the request task
    to_elapsed,     \* ticks since asyncio.wait_for started waiting
    to_host,        \* the messages that reached the host adapter's send, in order
    to_deadline,    \* history: wait_for's own timeout fired for this request
    \* ---- CORSMiddleware (middleware/cors.py) ----
    cors_cfg,       \* the middleware as constructed: allow_origins, allow_credentials, _origin_regex, _wildcard_origins, _allow_all
    cors_req,       \* the request in CORSMiddleware.process: method and Origin header
    cors_pc,        \* position of CORSMiddleware.process for that request
    cors_resp,      \* the http.response.start that reached the host: status and headers
    \* ---- FileSessionBackend shared by several workers (session.py) ----
    fs_files,       \* the session directory: per path, the file's content (NoFile when absent)
    fs_w,           \* per worker: position in its backend call, the record in hand, what it read and got back
    fs_last,        \* history: the data established by the last save(id, r) or delete(id) of a caller
    \* ---- AuthMiddleware, TokenAuthBackend, JWTAuthBackend (auth.py) ----
    au_backend,     \* middleware.backend and middleware.exclude_paths
    au_req,         \* the request in AuthMiddleware.process: input, position, scope["user"]
    \* ---- the Request objects of one request (middleware/csrf.py, app.py) ----
    rq_obj          \* whose Request object rb_body and rb_consumed belong to: a middleware's or the handler's

rlVars == <<now, max_requests, window, requests, rl_req, forwarded>>
lsVars == <<entrypoint, n_startup, n_shutdown, inflight, inflight_zero, shutting_down,
            ls_pc, ls_i, waiter, timed_out, host, events, task, at_shutdown>>
mwVars == <<middleware, chain, built_from, mw_pc, mw_depth, mw_at, mw_msgs, seen_request,
            seen_response, app_built>>
rtVars == <<routes, tree, lookup, subrouters, sub_routes, tree_dirty, include_pending>>
csVars == <<csrf_req, csrf_pc, csrf_token, csrf_invoked, csrf_resp>>
beVars == <<backend, sessions, be_result, be_saved>>
smVars == <<sm_clock, sm_n, sm_req, sm_sent, sm_last>>
rbVars == <<rb_cfg, rb_msgs, rb_body, rb_consumed, rb_pc, rb_chunks, rb_calls, rb_ret>>
rsVars == <<rs_plan, rs_pc, rs_i, rs_host>>
toVars == <<to_timeout, to_pc, to_elapsed, to_host, to_deadline>>
coVars == <<cors_cfg, cors_req, cors_pc, cors_resp>>
fsVars == <<fs_files, fs_w, fs_last>>
auVars == <<au_backend, au_req>>
rqVars == <<rq_obj>>
vars == <<rlVars, lsVars, mwVars, rtVars, csVars, beVars, smVars, rbVars, rsVars, toVars, coVars, fsVars, auVars, rqVars>>

\* ------------------------------------------------------------------------
\* Small helpers on sequences
\* ------------------------------------------------------------------------
Range(s) == {s[i] : i \in 1..Len(s)}

RECURSIVE Filter(_, _)
\* [t for t in s if t > lo]
Filter(s, lo) ==
    IF s = <<>> THEN <<>>
    ELSE IF Head(s) > lo THEN <<Head(s)>> \o Filter(Tail(s), lo)
    ELSE Filter(Tail(s), lo)

Reverse(s) == [i \in 1..Len(s) |-> s[Len(s) + 1 - i]]

\* ========================================================================
\* RateLimitMiddleware                      src/src/thor/middleware/ratelimit.py
\* ========================================================================
TicksPerSec == 2        \* resolution of the clock: ticks per second
MaxTime == 4            \* the clock stops after this many ticks
MaxRateReqs == 3        \* requests sent to the rate limiter
MaxMaxRequests == 2     \* max_requests is drawn from 1..MaxMaxRequests
MaxWindow == 2          \* window_seconds is drawn from 1..MaxWindow

\* scope.get("client"): a (host, port) pair, or nothing (written <<>>)
ScopeClients == {<<"10.0.0.1", 5000>>, <<>>}

\* client_ip = client[0] if client else "unknown"
ClientIp(client) == IF client = <<>> THEN "unknown" ELSE client[1]

ClientIps == {ClientIp(c) : c \in ScopeClients}

\* self._requests.get(client_ip, [])
StoredTimestamps(ip) == IF ip \in DOMAIN requests THEN requests[ip] ELSE <<>>

PrunedKeepsEdge(timestamps) == Filter(timestamps, now - window * TicksPerSec - 1)

\* window_start = now - self._window;  [t for t in timestamps if t > window_start]
Pruned(timestamps) == Filter(timestamps, now - window * TicksPerSec)

OverLimitOffByOne(timestamps) == Len(timestamps) > max_requests

\* if len(timestamps) >= self._max_requests
OverLimit(timestamps) == Len(timestamps) >= max_requests

RetryAfterNoMargin(timestamps) ==
    (window * TicksPerSec - (now - timestamps[1])) \div TicksPerSec

\* retry_after = int(self._window - (now - timestamps[0])) + 1, in seconds
RetryAfter(timestamps) ==
    ((window * TicksPerSec - (now - timestamps[1])) \div TicksPerSec) + 1

\* time passes
Tick ==
    /\ now < MaxTime
    /\ now' = now + 1
    /\ UNCHANGED <<max_requests, window, requests, rl_req, forwarded>>
    /\ UNCHANGED <<lsVars, mwVars, rtVars, csVars, beVars, smVars, rbVars, rsVars, toVars, coVars, fsVars, auVars, rqVars>>

ProcessStoresUnpruned(client) ==
    LET ip == ClientIp(client)
        timestamps == Pruned(StoredTimestamps(ip))
        seen == Len(forwarded[ip])
    IN  /\ Len(rl_req) < MaxRateReqs
        /\ IF OverLimit(timestamps)
           THEN /\ rl_req' = Append(rl_req,
                        [client |-> ip, at |-> now, seen |-> seen, pc |-> "send429",
                         status |-> 429, retry_after |-> RetryAfter(timestamps),
                         remaining |-> -1, app_called |-> FALSE])
                /\ UNCHANGED <<requests, forwarded>>
           ELSE LET stored == Append(timestamps, now)
                IN  /\ requests' = [k \in DOMAIN requests \cup {ip} |->
                                       IF k = ip THEN Append(StoredTimestamps(ip), now)
                                       ELSE requests[k]]
                    /\ forwarded' = [forwarded EXCEPT ![ip] = Append(@, now)]
                    /\ rl_req' = Append(rl_req,
                            [client |-> ip, at |-> now, seen |-> seen, pc |-> "in_app",
                             status |-> 0, retry_after |-> 0,
                             remaining |-> max_requests - Len(stored),
                             app_called |-> TRUE])
        /\ UNCHANGED <<now, max_requests, window>>
        /\ UNCHANGED <<lsVars, mwVars, rtVars, csVars, beVars, smVars, rbVars, rsVars, toVars, coVars, fsVars, auVars, rqVars>>

\* RateLimitMiddleware.process up to its first await: the whole decision,
\* and on the forwarding path the append and the store, run without suspension.
Process(client) ==
    LET ip == ClientIp(client)
        timestamps == Pruned(StoredTimestamps(ip))
        seen == Len(forwarded[ip])
    IN  /\ Len(rl_req) < MaxRateReqs
        /\ IF OverLimit(timestamps)
           THEN /\ rl_req' = Append(rl_req,
                        [client |-> ip, at |-> now, seen |-> seen, pc |-> "send429",
                         status |-> 429, retry_after |-> RetryAfter(timestamps),
                         remaining |-> -1, app_called |-> FALSE])
                /\ UNCHANGED <<requests, forwarded>>
           ELSE LET stored == Append(timestamps, now)
                IN  /\ requests' = [k \in DOMAIN requests \cup {ip} |->
                                       IF k = ip THEN stored ELSE requests[k]]
                    /\ forwarded' = [forwarded EXCEPT ![ip] = Append(@, now)]
                    /\ rl_req' = Append(rl_req,
                            [client |-> ip, at |-> now, seen |-> seen, pc |-> "in_app",
                             status |-> 0, retry_after |-> 0,
                             remaining |-> max_requests - Len(stored),
                             app_called |-> TRUE])
        /\ UNCHANGED <<now, max_requests, window>>
        /\ UNCHANGED <<lsVars, mwVars, rtVars, csVars, beVars, smVars, rbVars, rsVars, toVars, coVars, fsVars, auVars, rqVars>>

\* await response(send): the 429 response has been written
Reply429(i) ==
    /\ i \in 1..Len(rl_req)
    /\ rl_req[i].pc = "send429"
    /\ rl_req' = [rl_req EXCEPT ![i].pc = "done"]
    /\ UNCHANGED <<now, max_requests, window, requests, forwarded>>
    /\ UNCHANGED <<lsVars, mwVars, rtVars, csVars, beVars, smVars, rbVars, rsVars, toVars, coVars, fsVars, auVars, rqVars>>

\* await self.app(scope, receive, send_with_ratelimit) returns
AppReturns(i) ==
    /\ i \in 1..Len(rl_req)
    /\ rl_req[i].pc = "in_app"
    /\ rl_req' = [rl_req EXCEPT ![i].pc = "done", ![i].status = 200]
    /\ UNCHANGED <<now, max_requests, window, requests, forwarded>>
    /\ UNCHANGED <<lsVars, mwVars, rtVars, csVars, beVars, smVars, rbVars, rsVars, toVars, coVars, fsVars, auVars, rqVars>>

NextRateLimit ==
    \/ Tick
    \/ \E client \in ScopeClients : Process(client)
    \/ \E i \in 1..MaxRateReqs : Reply429(i)
    \/ \E i \in 1..MaxRateReqs : AppReturns(i)

\* ========================================================================
\* Lifespan, LifespanProtocolHandler                src/src/thor/lifespan.py
\* Thor.__call__                                         src/src/thor/app.py
\* ========================================================================
MaxTasks == 2           \* HTTP/WebSocket requests the host adapter dispatches
MaxHandlers == 2        \* startup handlers, and shutdown handlers, registered at most

Tasks == 1..MaxTasks

ScopeTypes == {"http", "websocket"}

\* the ways the awaited application can end: it returns, it raises, it is cancelled
Outcomes == {"returned", "raised", "cancelled"}

Running == {k \in Tasks : task[k].pc = "running"}

\* an entry of the record of what the lifespan task did: a handler run (n is the
\* handler's number) or a message sent (n is the in-flight counter, running the
\* request tasks not yet finished, at that moment)
Ev(e, what, n) == [e |-> e, what |-> what, n |-> n, running |-> {}]

\* await send({"type": <type>})
Sent(type) == [e |-> "send", what |-> type, n |-> inflight, running |-> Running]

HandlerCallKeepsSignal(k, type) ==
    /\ entrypoint = "handler"
    /\ type # "lifespan"
    /\ task[k].pc = "new"
    /\ \A j \in 1..(k - 1) : task[j].pc # "new"
    /\ inflight' = inflight + 1
    /\ task' = [task EXCEPT ![k] = [pc |-> "running", via |-> "handler", outcome |-> ""]]
    /\ UNCHANGED <<entrypoint, n_startup, n_shutdown, shutting_down, ls_pc, ls_i, waiter,
                   timed_out, host, events, at_shutdown, inflight_zero>>
    /\ UNCHANGED <<rlVars, mwVars, rtVars, csVars, beVars, smVars, rbVars, rsVars, toVars, coVars, fsVars, auVars, rqVars>>

\* LifespanProtocolHandler.__call__, non-lifespan branch, up to `await self._app(...)`
HandlerCall(k, type) ==
    /\ entrypoint = "handler"
    /\ type # "lifespan"
    /\ task[k].pc = "new"
    /\ \A j \in 1..(k - 1) : task[j].pc # "new"
    /\ inflight' = inflight + 1
    /\ inflight_zero' = FALSE
    /\ task' = [task EXCEPT ![k] = [pc |-> "running", via |-> "handler", outcome |-> ""]]
    /\ UNCHANGED <<entrypoint, n_startup, n_shutdown, shutting_down, ls_pc, ls_i, waiter,
                   timed_out, host, events, at_shutdown>>
    /\ UNCHANGED <<rlVars, mwVars, rtVars, csVars, beVars, smVars, rbVars, rsVars, toVars, coVars, fsVars, auVars, rqVars>>

HandlerFinallyNoCleanupOnError(k, outcome) ==
    /\ task[k].pc = "running"
    /\ task[k].via = "handler"
    /\ inflight' = IF outcome = "returned" THEN inflight - 1 ELSE inflight
    /\ inflight_zero' = (inflight_zero \/ inflight' = 0)
    /\ waiter' = IF inflight' = 0 /\ waiter = "waiting" THEN "woken" ELSE waiter
    /\ task' = [task EXCEPT ![k].pc = "done", ![k].outcome = outcome]
    /\ UNCHANGED <<entrypoint, n_startup, n_shutdown, shutting_down, ls_pc, ls_i,
                   timed_out, host, events, at_shutdown>>
    /\ UNCHANGED <<rlVars, mwVars, rtVars, csVars, beVars, smVars, rbVars, rsVars, toVars, coVars, fsVars, auVars, rqVars>>

\* LifespanProtocolHandler.__call__: the awaited app ends (in any way) and the
\* finally block runs.  Event.set() resolves the future a waiter is blocked on.
HandlerFinally(k, outcome) ==
    /\ task[k].pc = "running"
    /\ task[k].via = "handler"
    /\ inflight' = inflight - 1
    /\ inflight_zero' = (inflight_zero \/ inflight' = 0)
    /\ waiter' = IF inflight' = 0 /\ waiter = "waiting" THEN "woken" ELSE waiter
    /\ task' = [task EXCEPT ![k].pc = "done", ![k].outcome = outcome]
    /\ UNCHANGED <<entrypoint, n_startup, n_shutdown, shutting_down, ls_pc, ls_i,
                   timed_out, host, events, at_shutdown>>
    /\ UNCHANGED <<rlVars, mwVars, rtVars, csVars, beVars, smVars, rbVars, rsVars, toVars, coVars, fsVars, auVars, rqVars>>

\* Thor.__call__ for an "http" or "websocket" scope: the request goes to the
\* middleware chain (or to _handle_websocket); no LifespanProtocolHandler is involved.
ThorCall(k, type) ==
    /\ entrypoint = "thor"
    /\ type # "lifespan"
    /\ task[k].pc = "new"
    /\ \A j \in 1..(k - 1) : task[j].pc # "new"
    /\ task' = [task EXCEPT ![k] = [pc |-> "running", via |-> "thor", outcome |-> ""]]
    /\ UNCHANGED <<entrypoint, n_startup, n_shutdown, inflight, inflight_zero,
                   shutting_down, ls_pc, ls_i, waiter, timed_out, host, events,
                   at_shutdown>>
    /\ UNCHANGED <<rlVars, mwVars, rtVars, csVars, beVars, smVars, rbVars, rsVars, toVars, coVars, fsVars, auVars, rqVars>>

\* the request dispatched by Thor.__call__ ends
ThorReturn(k, outcome) ==
    /\ task[k].pc = "running"
    /\ task[k].via = "thor"
    /\ task' = [task EXCEPT ![k].pc = "done", ![k].outcome = outcome]
    /\ UNCHANGED <<entrypoint, n_startup, n_shutdown, inflight, inflight_zero,
                   shutting_down, ls_pc, ls_i, waiter, timed_out, host, events,
                   at_shutdown>>
    /\ UNCHANGED <<rlVars, mwVars, rtVars, csVars, beVars, smVars, rbVars, rsVars, toVars, coVars, fsVars, auVars, rqVars>>

\* The host adapter calls the application with the lifespan scope:
\* Thor.__call__ builds LifespanProtocolHandler(self._get_app(), self._lifespan)
\* and awaits it; _handle_lifespan enters `async with self._lifespan(self.state)`.
LifespanCall ==
    /\ ls_pc = "idle"
    /\ ls_pc' = "startup"
    /\ ls_i' = 1
    /\ UNCHANGED <<entrypoint, n_startup, n_shutdown, inflight, inflight_zero,
                   shutting_down, waiter, timed_out, host, events, task, at_shutdown>>
    /\ UNCHANGED <<rlVars, mwVars, rtVars, csVars, beVars, smVars, rbVars, rsVars, toVars, coVars, fsVars, auVars, rqVars>>

\* Lifespan.__call__ / Lifespan.startup: `await handler()` for the next startup
\* handler.  A handler that raises ends startup(), the context manager's entry
\* and _handle_lifespan: the `try` of the message loop has not been entered.
StartupHandler(raises) ==
    /\ ls_pc = "startup"
    /\ ls_i <= n_startup
    /\ IF raises
       THEN /\ events' = Append(events, Ev("startup_raised", "", ls_i))
            /\ ls_pc' = "raised"
            /\ UNCHANGED ls_i
       ELSE /\ events' = Append(events, Ev("startup", "", ls_i))
            /\ ls_i' = ls_i + 1
            /\ UNCHANGED ls_pc
    /\ UNCHANGED <<entrypoint, n_startup, n_shutdown, inflight, inflight_zero,
                   shutting_down, waiter, timed_out, host, task, at_shutdown>>
    /\ UNCHANGED <<rlVars, mwVars, rtVars, csVars, beVars, smVars, rbVars, rsVars, toVars, coVars, fsVars, auVars, rqVars>>

\* startup() returns, the context manager yields, the loop awaits receive()
StartupDone ==
    /\ ls_pc = "startup"
    /\ ls_i > n_startup
    /\ ls_pc' = "receive"
    /\ ls_i' = 0
    /\ UNCHANGED <<entrypoint, n_startup, n_shutdown, inflight, inflight_zero,
                   shutting_down, waiter, timed_out, host, events, task, at_shutdown>>
    /\ UNCHANGED <<rlVars, mwVars, rtVars, csVars, beVars, smVars, rbVars, rsVars, toVars, coVars, fsVars, auVars, rqVars>>

\* _handle_lifespan: receive() returns "lifespan.startup"
ReceiveStartup ==
    /\ ls_pc = "receive"
    /\ host = "lifespan.startup"
    /\ events' = Append(events, Sent("lifespan.startup.complete"))
    /\ host' = "lifespan.shutdown"
    /\ UNCHANGED <<entrypoint, n_startup, n_shutdown, inflight, inflight_zero,
                   shutting_down, ls_pc, ls_i, waiter, timed_out, task, at_shutdown>>
    /\ UNCHANGED <<rlVars, mwVars, rtVars, csVars, beVars, smVars, rbVars, rsVars, toVars, coVars, fsVars, auVars, rqVars>>

\* _handle_lifespan: receive() returns "lifespan.shutdown"; _drain_requests up
\* to its await.  With no request in flight the drain returns at once and
\* shutdown.complete is sent; `return` then leaves the `async with`, whose
\* finally runs Lifespan.shutdown().
ReceiveShutdown ==
    /\ ls_pc = "receive"
    /\ host = "lifespan.shutdown"
    /\ host' = "none"
    /\ shutting_down' = TRUE
    /\ at_shutdown' = Running
    /\ IF inflight = 0
       THEN /\ events' = Append(events, Sent("lifespan.shutdown.complete"))
            /\ ls_pc' = "shutdown"
            /\ ls_i' = n_shutdown
            /\ UNCHANGED waiter
       ELSE /\ ls_pc' = "drain"
            /\ waiter' = IF inflight_zero THEN "woken" ELSE "waiting"
            /\ UNCHANGED <<events, ls_i>>
    /\ UNCHANGED <<entrypoint, n_startup, n_shutdown, inflight, inflight_zero,
                   timed_out, task>>
    /\ UNCHANGED <<rlVars, mwVars, rtVars, csVars, beVars, smVars, rbVars, rsVars, toVars, coVars, fsVars, auVars, rqVars>>

\* _drain_requests: the wait on _inflight_zero returns; shutdown.complete is sent
DrainWake ==
    /\ ls_pc = "drain"
    /\ waiter = "woken"
    /\ waiter' = "none"
    /\ events' = Append(events, Sent("lifespan.shutdown.complete"))
    /\ ls_pc' = "shutdown"
    /\ ls_i' = n_shutdown
    /\ UNCHANGED <<entrypoint, n_startup, n_shutdown, inflight, inflight_zero,
                   shutting_down, timed_out, host, task, at_shutdown>>
    /\ UNCHANGED <<rlVars, mwVars, rtVars, csVars, beVars, smVars, rbVars, rsVars, toVars, coVars, fsVars, auVars, rqVars>>

DrainWaitsForever ==
    /\ FALSE
    /\ UNCHANGED vars

\* _drain_requests: asyncio.wait_for cancels the wait after shutdown_timeout
\* (also when the event was set but the waiter has not run yet); the
\* TimeoutError is logged and shutdown.complete is sent
DrainTimeout ==
    /\ ls_pc = "drain"
    /\ waiter' = "none"
    /\ timed_out' = TRUE
    /\ events' = Append(events, Sent("lifespan.shutdown.complete"))
    /\ ls_pc' = "shutdown"
    /\ ls_i' = n_shutdown
    /\ UNCHANGED <<entrypoint, n_startup, n_shutdown, inflight, inflight_zero,
                   shutting_down, host, task, at_shutdown>>
    /\ UNCHANGED <<rlVars, mwVars, rtVars, csVars, beVars, smVars, rbVars, rsVars, toVars, coVars, fsVars, auVars, rqVars>>

ShutdownHandlerInRegistrationOrder(raises) ==
    /\ ls_pc = "shutdown"
    /\ ls_i >= 1
    /\ IF raises
       THEN /\ events' = Append(events, Ev("shutdown_raised", "", n_shutdown + 1 - ls_i))
            /\ ls_pc' = "raised"
            /\ UNCHANGED ls_i
       ELSE /\ events' = Append(events, Ev("shutdown", "", n_shutdown + 1 - ls_i))
            /\ ls_i' = ls_i - 1
            /\ UNCHANGED ls_pc
    /\ UNCHANGED <<entrypoint, n_startup, n_shutdown, inflight, inflight_zero,
                   shutting_down, waiter, timed_out, host, task, at_shutdown>>
    /\ UNCHANGED <<rlVars, mwVars, rtVars, csVars, beVars, smVars, rbVars, rsVars, toVars, coVars, fsVars, auVars, rqVars>>

\* Lifespan.shutdown: `await handler()` for the next handler of
\* reversed(self._shutdown_handlers); a handler that raises ends it
ShutdownHandler(raises) ==
    /\ ls_pc = "shutdown"
    /\ ls_i >= 1
    /\ IF raises
       THEN /\ events' = Append(events, Ev("shutdown_raised", "", ls_i))
            /\ ls_pc' = "raised"
            /\ UNCHANGED ls_i
       ELSE /\ events' = Append(events, Ev("shutdown", "", ls_i))
            /\ ls_i' = ls_i - 1
            /\ UNCHANGED ls_pc
    /\ UNCHANGED <<entrypoint, n_startup, n_shutdown, inflight, inflight_zero,
                   shutting_down, waiter, timed_out, host, task, at_shutdown>>
    /\ UNCHANGED <<rlVars, mwVars, rtVars, csVars, beVars, smVars, rbVars, rsVars, toVars, coVars, fsVars, auVars, rqVars>>

\* Lifespan.shutdown returns; _handle_lifespan returns
ShutdownDone ==
    /\ ls_pc = "shutdown"
    /\ ls_i = 0
    /\ ls_pc' = "done"
    /\ UNCHANGED <<entrypoint, n_startup, n_shutdown, inflight, inflight_zero,
                   shutting_down, ls_i, waiter, timed_out, host, events, task,
                   at_shutdown>>
    /\ UNCHANGED <<rlVars, mwVars, rtVars, csVars, beVars, smVars, rbVars, rsVars, toVars, coVars, fsVars, auVars, rqVars>>

NextLifespan ==
    \/ \E k \in Tasks, type \in ScopeTypes : HandlerCall(k, type)
    \/ \E k \in Tasks, outcome \in Outcomes : HandlerFinally(k, outcome)
    \/ \E k \in Tasks, type \in ScopeTypes : ThorCall(k, type)
    \/ \E k \in Tasks, outcome \in Outcomes : ThorReturn(k, outcome)
    \/ LifespanCall
    \/ \E raises \in BOOLEAN : StartupHandler(raises)
    \/ StartupDone
    \/ ReceiveStartup
    \/ ReceiveShutdown
    \/ DrainWake
    \/ DrainTimeout
    \/ \E raises \in BOOLEAN : ShutdownHandler(raises)
    \/ ShutdownDone

\* ========================================================================
\* MiddlewareStack                          src/src/thor/middleware/base.py
\* ========================================================================
MaxMiddleware == 3      \* middleware registered at most

\* the middleware classes that can be registered
MiddlewareClasses == {"A", "B", "C"}

\* what a response consists of: Response.__call__ sends start, then body
ResponseMessages == <<"http.response.start", "http.response.body">>

RECURSIVE Wrap(_, _)
\* for middleware_class in <order>: app = middleware_class(app).  An app is
\* written as the list of its wrappers, outermost first; the empty list is
\* the terminal handler stack._app itself.
Wrap(app, order) ==
    IF order = <<>> THEN app
    ELSE Wrap(<<Head(order)>> \o app, Tail(order))

BuildInRegistrationOrder(registered) == Wrap(<<>>, registered)

\* MiddlewareStack.build: wrap in reversed(self._middleware) order
Build(registered) == Wrap(<<>>, Reverse(registered))

\* MiddlewareStack.add
Add(middleware_class) ==
    /\ Len(middleware) < MaxMiddleware
    /\ middleware' = Append(middleware, middleware_class)
    /\ UNCHANGED <<chain, built_from, mw_pc, mw_depth, mw_at, mw_msgs, seen_request,
                   seen_response>>
    /\ UNCHANGED app_built
    /\ UNCHANGED <<rlVars, lsVars, rtVars, csVars, beVars, smVars, rbVars, rsVars, toVars, coVars, fsVars, auVars, rqVars>>

\* app = stack.build(), between two requests; nothing has gone through the
\* new app yet
BuildChain ==
    /\ mw_pc = "idle"
    /\ chain' = Build(middleware)
    /\ built_from' = middleware
    /\ mw_depth' = 0
    /\ seen_request' = <<>>
    /\ seen_response' = <<>>
    /\ UNCHANGED <<middleware, mw_pc, mw_at, mw_msgs>>
    /\ UNCHANGED app_built
    /\ UNCHANGED <<rlVars, lsVars, rtVars, csVars, beVars, smVars, rbVars, rsVars, toVars, coVars, fsVars, auVars, rqVars>>

\* the host adapter calls the built app with an http scope
Dispatch ==
    /\ mw_pc = "idle"
    /\ mw_pc' = "request"
    /\ mw_depth' = 0
    /\ mw_at' = 0
    /\ mw_msgs' = <<>>
    /\ seen_request' = <<>>
    /\ seen_response' = <<>>
    /\ UNCHANGED <<middleware, chain, built_from>>
    /\ UNCHANGED app_built
    /\ UNCHANGED <<rlVars, lsVars, rtVars, csVars, beVars, smVars, rbVars, rsVars, toVars, coVars, fsVars, auVars, rqVars>>

\* Middleware.__call__ -> process: the next wrapper of the chain sees the
\* request; it either awaits self.app with its own send wrapper, or answers
\* itself through the send it was given (a short-circuit)
Enter(short_circuit) ==
    /\ mw_pc = "request"
    /\ mw_depth < Len(chain)
    /\ seen_request' = Append(seen_request, chain[mw_depth + 1])
    /\ IF short_circuit
       THEN /\ mw_pc' = "respond"
            /\ mw_msgs' = ResponseMessages
            /\ UNCHANGED mw_depth
       ELSE /\ mw_depth' = mw_depth + 1
            /\ UNCHANGED <<mw_pc, mw_msgs>>
    /\ UNCHANGED <<middleware, chain, built_from, mw_at, seen_response>>
    /\ UNCHANGED app_built
    /\ UNCHANGED <<rlVars, lsVars, rtVars, csVars, beVars, smVars, rbVars, rsVars, toVars, coVars, fsVars, auVars, rqVars>>

\* the innermost app, stack._app, is called and answers
Terminal ==
    /\ mw_pc = "request"
    /\ mw_depth = Len(chain)
    /\ seen_request' = Append(seen_request, "handler")
    /\ mw_pc' = "respond"
    /\ mw_msgs' = ResponseMessages
    /\ UNCHANGED <<middleware, chain, built_from, mw_depth, mw_at, seen_response>>
    /\ UNCHANGED app_built
    /\ UNCHANGED <<rlVars, lsVars, rtVars, csVars, beVars, smVars, rbVars, rsVars, toVars, coVars, fsVars, auVars, rqVars>>

\* the responder calls the send it was given with its next message: the send
\* wrapper of the innermost wrapper it is inside
SendMessage ==
    /\ mw_pc = "respond"
    /\ mw_msgs # <<>>
    /\ mw_pc' = "send"
    /\ mw_at' = mw_depth
    /\ seen_response' = Append(seen_response, <<>>)
    /\ UNCHANGED <<middleware, chain, built_from, mw_depth, mw_msgs, seen_request>>
    /\ UNCHANGED app_built
    /\ UNCHANGED <<rlVars, lsVars, rtVars, csVars, beVars, smVars, rbVars, rsVars, toVars, coVars, fsVars, auVars, rqVars>>

\* a send wrapper sees the message and awaits the send it was itself given
SendThrough ==
    /\ mw_pc = "send"
    /\ mw_at >= 1
    /\ seen_response' = [seen_response EXCEPT ![Len(seen_response)] =
                            Append(@, chain[mw_at])]
    /\ mw_at' = mw_at - 1
    /\ UNCHANGED <<middleware, chain, built_from, mw_pc, mw_depth, mw_msgs, seen_request>>
    /\ UNCHANGED app_built
    /\ UNCHANGED <<rlVars, lsVars, rtVars, csVars, beVars, smVars, rbVars, rsVars, toVars, coVars, fsVars, auVars, rqVars>>

\* the message reaches the host adapter's send
SendArrives ==
    /\ mw_pc = "send"
    /\ mw_at = 0
    /\ mw_msgs' = Tail(mw_msgs)
    /\ mw_pc' = "respond"
    /\ UNCHANGED <<middleware, chain, built_from, mw_depth, mw_at, seen_request,
                   seen_response>>
    /\ UNCHANGED app_built
    /\ UNCHANGED <<rlVars, lsVars, rtVars, csVars, beVars, smVars, rbVars, rsVars, toVars, coVars, fsVars, auVars, rqVars>>

\* the last message is out: the call returns through every wrapper
Return ==
    /\ mw_pc = "respond"
    /\ mw_msgs = <<>>
    /\ mw_pc' = "idle"
    /\ UNCHANGED <<middleware, chain, built_from, mw_depth, mw_at, mw_msgs, seen_request,
                   seen_response>>
    /\ UNCHANGED app_built
    /\ UNCHANGED <<rlVars, lsVars, rtVars, csVars, beVars, smVars, rbVars, rsVars, toVars, coVars, fsVars, auVars, rqVars>>

NextChain ==
    \/ \E middleware_class \in MiddlewareClasses : Add(middleware_class)
    \/ BuildChain
    \/ Dispatch
    \/ \E short_circuit \in BOOLEAN : Enter(short_circuit)
    \/ Terminal
    \/ SendMessage
    \/ SendThrough
    \/ SendArrives
    \/ Return

\* ---- the chain of a Thor application (app.py) ----
AddMiddlewareKeepsApp(middleware_class) ==
    /\ Len(middleware) <= MaxMiddleware
    /\ middleware' = Append(middleware, middleware_class)
    /\ UNCHANGED <<chain, built_from, mw_pc, mw_depth, mw_at, mw_msgs, seen_request,
                   seen_response, app_built>>
    /\ UNCHANGED <<rlVars, lsVars, rtVars, csVars, beVars, smVars, rbVars, rsVars, toVars, coVars, fsVars, auVars, rqVars>>

\* Thor.add_middleware: self._middleware_stack.add(...); self._app = None
AddMiddleware(middleware_class) ==
    /\ Len(middleware) <= MaxMiddleware
    /\ middleware' = Append(middleware, middleware_class)
    /\ app_built' = FALSE
    /\ UNCHANGED <<chain, built_from, mw_pc, mw_depth, mw_at, mw_msgs, seen_request,
                   seen_response>>
    /\ UNCHANGED <<rlVars, lsVars, rtVars, csVars, beVars, smVars, rbVars, rsVars, toVars, coVars, fsVars, auVars, rqVars>>

\* Thor.__call__ with an http scope: self._get_app() builds the chain when
\* self._app is None, and the chain is called
ThorCallHttp ==
    /\ mw_pc = "idle"
    /\ IF app_built
       THEN UNCHANGED <<chain, built_from>>
       ELSE chain' = Build(middleware) /\ built_from' = middleware
    /\ app_built' = TRUE
    /\ mw_pc' = "request"
    /\ mw_depth' = 0
    /\ mw_at' = 0
    /\ mw_msgs' = <<>>
    /\ seen_request' = <<>>
    /\ seen_response' = <<>>
    /\ UNCHANGED middleware
    /\ UNCHANGED <<rlVars, lsVars, rtVars, csVars, beVars, smVars, rbVars, rsVars, toVars, coVars, fsVars, auVars, rqVars>>

\* a wrapper of the application's chain sees the request; the error handler
\* never answers on the way in, a user-added middleware may
ThorEnter(short_circuit) ==
    /\ mw_depth < Len(chain)
    /\ short_circuit => chain[mw_depth + 1] # "ErrorHandlerMiddleware"
    /\ Enter(short_circuit)

ThorRaiseBareSend ==
    /\ mw_pc \in {"request", "respond"}
    /\ mw_depth >= 1
    /\ chain[1] = "ErrorHandlerMiddleware"
    /\ "exception" \notin Range(seen_request)
    /\ seen_request' = Append(seen_request, "exception")
    /\ mw_pc' = "respond"
    /\ mw_depth' = 0
    /\ mw_msgs' = ResponseMessages
    /\ UNCHANGED <<middleware, chain, built_from, mw_at, seen_response, app_built>>
    /\ UNCHANGED <<rlVars, lsVars, rtVars, csVars, beVars, smVars, rbVars, rsVars, toVars, coVars, fsVars, auVars, rqVars>>

\* a middleware or the handler inside the error handler raises an Exception,
\* before or while responding: ErrorHandlerMiddleware.process answers with
\* `response(send_with_request_id)`
ThorRaise ==
    /\ mw_pc \in {"request", "respond"}
    /\ mw_depth >= 1
    /\ chain[1] = "ErrorHandlerMiddleware"
    /\ "exception" \notin Range(seen_request)
    /\ seen_request' = Append(seen_request, "exception")
    /\ mw_pc' = "respond"
    /\ mw_depth' = 1
    /\ mw_msgs' = ResponseMessages
    /\ UNCHANGED <<middleware, chain, built_from, mw_at, seen_response, app_built>>
    /\ UNCHANGED <<rlVars, lsVars, rtVars, csVars, beVars, smVars, rbVars, rsVars, toVars, coVars, fsVars, auVars, rqVars>>

NextThor ==
    \/ \E middleware_class \in MiddlewareClasses : AddMiddleware(middleware_class)
    \/ ThorCallHttp
    \/ \E short_circuit \in BOOLEAN : ThorEnter(short_circuit)
    \/ Terminal
    \/ ThorRaise
    \/ SendMessage
    \/ SendThrough
    \/ SendArrives
    \/ Return

\* ========================================================================
\* Route, RadixTree, Router                          src/src/thor/routing.py
\* ========================================================================
MaxRoutes == 2          \* routes registered at most
MaxSegments == 2        \* "/"-separated segments of a looked-up path at most

\* A path "/s1/s2/.../sn" is written <<s1, ..., sn>>: what path.split("/")
\* gives after the leading "/".  A segment may be empty ("/users/" is
\* <<"users", "">>, "/" is <<"">>).
Tokens == {"users", "me", "42", ""}

RECURSIVE PathsOfLength(_)
PathsOfLength(n) ==
    IF n = 0 THEN {<<>>}
    ELSE {Append(p, s) : p \in PathsOfLength(n - 1), s \in Tokens}

Paths == UNION {PathsOfLength(n) : n \in 1..MaxSegments}

\* A segment of a route template: a literal, or "{name}" / "{name:type}"
\* (type "" when the template gives none).
Static(lit) == [lit |-> lit, name |-> "", type |-> ""]
Param(name, type) == [lit |-> "", name |-> name, type |-> type]

\* the templates routes are registered with
Templates ==
    { <<Static("users")>>,                          \* /users
      <<Static("users"), Static("me")>>,            \* /users/me
      <<Static("users"), Param("id", "int")>>,      \* /users/{id:int}
      <<Static("users"), Param("name", "")>>,       \* /users/{name}
      <<Param("rest", "path")>> }                   \* /{rest:path}

MethodLists == {<<"GET">>, <<"post">>}
LookupMethods == {"GET", "POST", "get"}

\* str.upper() on the method tokens used here
Upper(m) == CASE m = "get" -> "GET" [] m = "post" -> "POST" [] OTHER -> m

\* TYPE_PATTERNS: does the type's regex match the whole of one segment
TypeMatches(type, seg) ==
    CASE type = "int"  -> seg \in {"42"}
      [] type = "str"  -> seg # ""
      [] type = "path" -> seg # ""
      [] type = "uuid" -> FALSE
      [] type = "slug" -> seg \in {"users", "me", "42"}

\* TYPE_CONVERTERS: int for "int", str for the rest.  A value is written
\* <<python type, the text it was converted from>>.
Convert(type, text) == IF type = "int" THEN <<"int", text>> ELSE <<"str", text>>

\* match.group(2) or "str"
ParamType(seg) == IF seg.type = "" THEN "str" ELSE seg.type

\* RadixTree._is_param: segment.startswith("{") and segment.endswith("}")
IsParam(seg) == seg.name # ""

NoParams == [n \in {} |-> <<>>]

\* new_params = dict(params); new_params[name] = value
Put(params, name, value) ==
    [n \in DOMAIN params \cup {name} |-> IF n = name THEN value ELSE params[n]]

NoMatch == [ok |-> FALSE, params |-> NoParams]

Bind(name, value, rest) ==
    IF rest.ok THEN [ok |-> TRUE, params |-> Put(rest.params, name, value)] ELSE rest

RECURSIVE MatchFrom(_, _)
RECURSIVE PathParamMatch(_, _, _, _)

\* The regex "^/t1/t2/.../tn$" that Route._compile_pattern builds, matched
\* against "/s1/.../sm".  A parameter of type int, str, uuid or slug cannot
\* cross a "/": it takes one whole segment.
MatchFrom(template, path) ==
    IF template = <<>> THEN (IF path = <<>> THEN [ok |-> TRUE, params |-> NoParams]
                             ELSE NoMatch)
    ELSE IF path = <<>> THEN NoMatch
    ELSE LET t == Head(template)
         IN  IF ~IsParam(t)
             THEN (IF Head(path) = t.lit THEN MatchFrom(Tail(template), Tail(path))
                   ELSE NoMatch)
             ELSE IF ParamType(t) = "path"
             THEN PathParamMatch(t, Tail(template), path, Len(path))
             ELSE IF TypeMatches(ParamType(t), Head(path))
             THEN Bind(t.name, Convert(ParamType(t), <<Head(path)>>),
                       MatchFrom(Tail(template), Tail(path)))
             ELSE NoMatch

\* "(?P<name>.+)": greedy, it takes the first k segments of path ("/" included)
\* for the largest k that lets the rest of the pattern match; the text taken
\* has at least one character.
PathParamMatch(t, rest, path, k) ==
    IF k = 0 THEN NoMatch
    ELSE LET taken == SubSeq(path, 1, k)
             tail == MatchFrom(rest, SubSeq(path, k + 1, Len(path)))
         IN  IF taken # <<"">> /\ tail.ok
             THEN Bind(t.name, Convert("path", taken), tail)
             ELSE PathParamMatch(t, rest, path, k - 1)

\* Route.match
RouteMatch(route, path) == MatchFrom(route.path, path)

\* RadixTree._split: [s for s in path.split("/") if s]
Split(path) == SelectSeq(path, LAMBDA s : s # "")
SplitTemplate(template) == SelectSeq(template, LAMBDA s : s # Static(""))

\* A radix node is named by the keys that lead to it from the root:
\* the literal for a static child (node.children[seg]), ParamKey for
\* node.param_child.
Root == <<>>
ParamKey == "{}"
ChildKey(key, seg) == Append(key, IF IsParam(seg) THEN ParamKey ELSE seg.lit)

\* _RadixNode(segment)
NewNode(seg) == [segment |-> seg, routes |-> <<>>]

\* RadixTree.__init__
EmptyTree == [key \in {Root} |-> NewNode(Static(""))]

RECURSIVE InsertAt(_, _, _, _)
\* RadixTree.insert, from `node` on: an existing child is reused as it is
InsertAt(t, node, segments, r) ==
    IF segments = <<>> THEN [t EXCEPT ![node].routes = Append(@, r)]
    ELSE LET child == ChildKey(node, Head(segments))
             grown == IF child \in DOMAIN t THEN t
                      ELSE [k \in DOMAIN t \cup {child} |->
                               IF k = child THEN NewNode(Head(segments)) ELSE t[k]]
         IN  InsertAt(grown, child, Tail(segments), r)

\* RadixTree.insert(route); the tree holds the route as its index in the route list
Insert(t, r, template) == InsertAt(t, Root, SplitTemplate(template), r)

Failure(kind) == [kind |-> kind, route |-> 0, params |-> NoParams]

RECURSIVE FirstAllowing(_, _, _)
\* for route in node.routes: if method in route.methods: return route
FirstAllowing(rs, node_routes, method) ==
    IF node_routes = <<>> THEN 0
    ELSE IF method \in rs[Head(node_routes)].methods THEN Head(node_routes)
    ELSE FirstAllowing(rs, Tail(node_routes), method)

\* search, "1. Try parametric child"
ParamPush(t, top, seg_value) ==
    LET pkey == Append(top.node, ParamKey)
    IN  IF pkey \in DOMAIN t
        THEN LET pnode == t[pkey]
                 ptype == ParamType(pnode.segment)
             IN  IF TypeMatches(ptype, seg_value)
                 THEN << [node |-> pkey, idx |-> top.idx + 1,
                          params |-> Put(top.params, pnode.segment.name,
                                         Convert(ptype, <<seg_value>>))] >>
                 ELSE <<>>
        ELSE <<>>

\* search, "2. Try static child"
StaticPush(t, top, seg_value) ==
    IF Append(top.node, seg_value) \in DOMAIN t
    THEN << [node |-> Append(top.node, seg_value), idx |-> top.idx + 1,
             params |-> top.params] >>
    ELSE <<>>

PushesStaticFirst(t, top, seg_value) ==
    StaticPush(t, top, seg_value) \o ParamPush(t, top, seg_value)

\* what one iteration appends to the stack: the parametric entry, then the
\* static one, so that the static one is popped first
Pushes(t, top, seg_value) ==
    ParamPush(t, top, seg_value) \o StaticPush(t, top, seg_value)

RECURSIVE SearchLoop(_, _, _, _, _, _)
\* RadixTree.search: the `while stack` loop and what follows it
SearchLoop(t, rs, segments, method, stack, method_matched_route) ==
    IF stack = <<>>
    THEN (IF method_matched_route # 0 THEN Failure("method_not_allowed")
          ELSE Failure("not_found"))
    ELSE LET top == stack[Len(stack)]
             rest == SubSeq(stack, 1, Len(stack) - 1)
             node == t[top.node]
         IN  IF top.idx = Len(segments)
             THEN LET hit == FirstAllowing(rs, node.routes, method)
                  IN  IF hit # 0
                      THEN [kind |-> "ok", route |-> hit, params |-> top.params]
                      ELSE SearchLoop(t, rs, segments, method, rest,
                               IF method_matched_route # 0 \/ node.routes = <<>>
                               THEN method_matched_route ELSE node.routes[1])
             ELSE SearchLoop(t, rs, segments, method,
                      rest \o Pushes(t, top, segments[top.idx + 1]),
                      method_matched_route)

\* RadixTree.search(path, method)
Search(t, rs, path, method) ==
    SearchLoop(t, rs, Split(path), method,
               << [node |-> Root, idx |-> 0, params |-> NoParams] >>, 0)

NoLookup == [path |-> <<>>, method |-> "", result |-> Failure("none")]

\* ---- sub-routers ----
MaxSubRoutes == 1       \* routes registered on the sub-router at most
MaxIncludes == 2        \* include_router calls on the root router at most

\* the prefix argument of include_router: "" and "/users"
Prefixes == {<<>>, <<Static("users")>>}

\* Router.routes builds a new Route for every route of every included
\* sub-router.  A route of the root router is named by its index in _routes;
\* the copy of the sub-router's j-th route under the k-th include by a number
\* above MaxRoutes.
SubRouteId(k, j) == MaxRoutes + (k - 1) * MaxSubRoutes + j

\* Route(path=f"{prefix}{route.path}", methods=route.methods, ...)
Prefixed(prefix, route) == [path |-> prefix \o route.path, methods |-> route.methods]

\* the routes the names stand for
RouteTable ==
    [id \in (1..Len(routes)) \cup
            {SubRouteId(k, j) : k \in 1..Len(subrouters), j \in 1..Len(sub_routes)} |->
        IF id <= MaxRoutes THEN routes[id]
        ELSE Prefixed(subrouters[((id - MaxRoutes - 1) \div MaxSubRoutes) + 1],
                      sub_routes[((id - MaxRoutes - 1) % MaxSubRoutes) + 1])]

\* Router.routes: list(self._routes), then the routes of each sub-router in
\* the order of the includes
FlatRoutes ==
    [i \in 1..Len(routes) |-> i] \o
    [m \in 1..(Len(subrouters) * Len(sub_routes)) |->
        SubRouteId(((m - 1) \div Len(sub_routes)) + 1, ((m - 1) % Len(sub_routes)) + 1)]

RECURSIVE InsertAll(_, _, _)
\* for route in self.routes: tree.insert(route)
InsertAll(t, ids, rs) ==
    IF ids = <<>> THEN t
    ELSE InsertAll(Insert(t, Head(ids), rs[Head(ids)].path), Tail(ids), rs)

\* Router._rebuild_tree
RebuildTree == InsertAll(EmptyTree, FlatRoutes, RouteTable)

\* `if self._tree_dirty: self._rebuild_tree()`: the tree that is searched
TreeToSearch == IF tree_dirty THEN RebuildTree ELSE tree

\* Router.add_route on the root router (prefix ""): the Route is built,
\* appended to _routes and inserted into the tree; _tree_dirty = False
AddRoute(path, methods) ==
    /\ Len(routes) < MaxRoutes
    /\ routes' = Append(routes, [path |-> path,
                                 methods |-> {Upper(m) : m \in Range(methods)}])
    /\ tree' = Insert(tree, Len(routes) + 1, path)
    /\ tree_dirty' = FALSE
    /\ lookup' = NoLookup
    /\ UNCHANGED <<subrouters, sub_routes, include_pending>>
    /\ UNCHANGED <<rlVars, lsVars, mwVars, csVars, beVars, smVars, rbVars, rsVars, toVars, coVars, fsVars, auVars, rqVars>>

\* Router.add_websocket_route on the root router
AddWebsocketRoute(path) ==
    /\ Len(routes) < MaxRoutes
    /\ routes' = Append(routes, [path |-> path, methods |-> {"WEBSOCKET"}])
    /\ tree' = Insert(tree, Len(routes) + 1, path)
    /\ tree_dirty' = FALSE
    /\ lookup' = NoLookup
    /\ UNCHANGED <<subrouters, sub_routes, include_pending>>
    /\ UNCHANGED <<rlVars, lsVars, mwVars, csVars, beVars, smVars, rbVars, rsVars, toVars, coVars, fsVars, auVars, rqVars>>

\* Router.include_router(sub, prefix) on the root router
IncludeRouter(prefix) ==
    /\ Len(subrouters) < MaxIncludes
    /\ subrouters' = Append(subrouters, prefix)
    /\ tree_dirty' = TRUE
    /\ include_pending' = TRUE
    /\ lookup' = NoLookup
    /\ UNCHANGED <<routes, tree, sub_routes>>
    /\ UNCHANGED <<rlVars, lsVars, mwVars, csVars, beVars, smVars, rbVars, rsVars, toVars, coVars, fsVars, auVars, rqVars>>

\* add_route on the sub-router (prefix ""): its own _routes and its own tree
\* change, nothing of the root router does.  The sub-router's tree is not
\* kept here: the root router never reads it.
SubAddRoute(path, methods) ==
    /\ Len(sub_routes) < MaxSubRoutes
    /\ sub_routes' = Append(sub_routes, [path |-> path,
                                         methods |-> {Upper(m) : m \in Range(methods)}])
    /\ lookup' = NoLookup
    /\ UNCHANGED <<routes, tree, subrouters, tree_dirty, include_pending>>
    /\ UNCHANGED <<rlVars, lsVars, mwVars, csVars, beVars, smVars, rbVars, rsVars, toVars, coVars, fsVars, auVars, rqVars>>

\* Router.match(path, method): the tree is rebuilt when it is dirty, then
\* self._tree.search(path, method.upper()).  The result of a lookup depends
\* on the table only, not on the lookups before it: lookup holds one result
\* per state of the table, and the next lookup is taken after a registration.
Match(path, method) ==
    /\ lookup = NoLookup
    /\ tree' = TreeToSearch
    /\ tree_dirty' = FALSE
    /\ include_pending' = FALSE
    /\ lookup' = [path |-> path, method |-> Upper(method),
                  result |-> Search(TreeToSearch, RouteTable, path, Upper(method))]
    /\ UNCHANGED <<routes, subrouters, sub_routes>>
    /\ UNCHANGED <<rlVars, lsVars, mwVars, csVars, beVars, smVars, rbVars, rsVars, toVars, coVars, fsVars, auVars, rqVars>>

\* Router.ws_match(path)
WsMatch(path) ==
    /\ lookup = NoLookup
    /\ tree' = TreeToSearch
    /\ tree_dirty' = FALSE
    /\ include_pending' = FALSE
    /\ lookup' = [path |-> path, method |-> "WEBSOCKET",
                  result |-> Search(TreeToSearch, RouteTable, path, "WEBSOCKET")]
    /\ UNCHANGED <<routes, subrouters, sub_routes>>
    /\ UNCHANGED <<rlVars, lsVars, mwVars, csVars, beVars, smVars, rbVars, rsVars, toVars, coVars, fsVars, auVars, rqVars>>

\* a router with no sub-router
NextRouter ==
    \/ \E path \in Templates, methods \in MethodLists : AddRoute(path, methods)
    \/ \E path \in Paths, method \in LookupMethods : Match(path, method)

\* the templates registered on the root router and on the sub-router when
\* sub-routers are included: under the prefix "/users" the sub-router's "/me"
\* becomes "/users/me"
RootTemplates == { <<Static("users")>>, <<Static("users"), Param("name", "")>> }
SubTemplates == { <<Static("me")>>, <<Static("users")>> }

\* a root router and a sub-router it includes
NextSubRouter ==
    \/ \E path \in RootTemplates : AddRoute(path, <<"GET">>)
    \/ \E path \in RootTemplates : AddWebsocketRoute(path)
    \/ \E prefix \in Prefixes : IncludeRouter(prefix)
    \/ \E path \in SubTemplates : SubAddRoute(path, <<"GET">>)
    \/ \E path \in Paths, method \in {"GET", "POST"} : Match(path, method)
    \/ \E path \in Paths : WsMatch(path)

\* ========================================================================
\* CSRFMiddleware                               src/src/thor/middleware/csrf.py
\* ========================================================================
\* Texts are written as sequences of pieces, so that str.startswith is the
\* prefix relation on sequences: "/hooks" is <<"/hooks">>, "/hooks/pay" is
\* <<"/hooks", "/pay">>.
StartsWith(text, p) == Len(p) <= Len(text) /\ SubSeq(text, 1, Len(p)) = p

\* SAFE_METHODS
SAFE_METHODS == {"GET", "HEAD", "OPTIONS", "TRACE"}

\* exclude_paths, as configured
ExcludePaths == {<<"/hooks">>}

\* tokens a client can put in a request; "" is an absent or empty value
ClientTokens == {"T1", "T2"}

\* secrets.token_urlsafe(32): a value no client token is equal to
FreshToken == "fresh"

\* the requests: cookies.get("thor_csrf"), headers.get("x-csrf-token"), the
\* Content-Type, the values of the body's _csrf_token fields in order, and
\* whether Request.form() can read the body (it raises for a body over
\* max_body_size or one that is not UTF-8)
CsrfRequests ==
    [ path : {<<"/form">>, <<"/hooks", "/pay">>},
      method : {"GET", "POST", "DELETE"},
      cookie : ClientTokens \cup {""},
      header : ClientTokens \cup {""},
      content_type : {"application/x-www-form-urlencoded; charset=utf-8", "application/json"},
      form : {<<>>, <<"">>, <<"T1">>, <<"T2", "T1">>},
      readable : BOOLEAN ]

NoCsrfRequest ==
    [path |-> <<"/form">>, method |-> "GET", cookie |-> "", header |-> "",
     content_type |-> "application/json", form |-> <<>>, readable |-> TRUE]

NoResponse == [status |-> 0, set_cookie |-> ""]

\* any(request.path.startswith(p) for p in self._exclude_paths)
Excluded(req) == \E p \in ExcludePaths : StartsWith(req.path, p)


\* _tokens_match: hmac.compare_digest(expected.encode(), submitted.encode())
TokensMatch(expected, submitted) == expected = submitted

\* _get_form_token: form.get("_csrf_token"), the first value of a repeated
\* field; None (written "") when the body is not URL-encoded
FormToken(req) ==
    IF req.content_type = "application/x-www-form-urlencoded; charset=utf-8" /\ req.form # <<>>
    THEN req.form[1] ELSE ""

\* `if not submitted_token or not self._tokens_match(cookie_token, submitted_token)`
Rejected(cookie_token, submitted_token) ==
    submitted_token = "" \/ ~TokensMatch(cookie_token, submitted_token)

\* CSRFMiddleware.process up to its first await
CsrfProcess(req) ==
    LET cookie_token == IF req.cookie = "" THEN FreshToken ELSE req.cookie
    IN  /\ csrf_pc \in {"idle", "done", "raised"}
        /\ csrf_req' = req
        /\ csrf_resp' = NoResponse
        /\ IF Excluded(req)
           THEN csrf_pc' = "app_plain" /\ csrf_token' = "" /\ csrf_invoked' = TRUE
           ELSE /\ csrf_token' = cookie_token
                /\ IF req.method \in SAFE_METHODS
                   THEN csrf_pc' = "app" /\ csrf_invoked' = TRUE
                   ELSE IF req.header # ""
                   THEN IF Rejected(cookie_token, req.header)
                        THEN csrf_pc' = "send403" /\ csrf_invoked' = FALSE
                        ELSE csrf_pc' = "app" /\ csrf_invoked' = TRUE
                   ELSE csrf_pc' = "form" /\ csrf_invoked' = FALSE
        /\ UNCHANGED <<rlVars, lsVars, mwVars, rtVars, beVars, smVars, rbVars, rsVars, toVars, coVars, fsVars, auVars, rqVars>>

\* is the body parsed: "application/x-www-form-urlencoded" in request.content_type
UrlEncoded(req) == req.content_type = "application/x-www-form-urlencoded; charset=utf-8"

\* `submitted_token = await self._get_form_token(request)`: it returns, and
\* the comparison follows, or request.form() raises and process ends with
\* that exception
CsrfFormToken ==
    /\ csrf_pc = "form"
    /\ IF UrlEncoded(csrf_req) /\ ~csrf_req.readable
       THEN csrf_pc' = "raised" /\ csrf_invoked' = FALSE
       ELSE IF Rejected(csrf_token, FormToken(csrf_req))
       THEN csrf_pc' = "send403" /\ csrf_invoked' = FALSE
       ELSE csrf_pc' = "app" /\ csrf_invoked' = TRUE
    /\ UNCHANGED <<csrf_req, csrf_token, csrf_resp>>
    /\ UNCHANGED <<rlVars, lsVars, mwVars, rtVars, beVars, smVars, rbVars, rsVars, toVars, coVars, fsVars, auVars, rqVars>>

\* `await response(send)` with the 403 JSONResponse: it goes to the caller's
\* send, not to send_with_csrf
CsrfReply403 ==
    /\ csrf_pc = "send403"
    /\ csrf_resp' = [status |-> 403, set_cookie |-> ""]
    /\ csrf_pc' = "done"
    /\ UNCHANGED <<csrf_req, csrf_token, csrf_invoked>>
    /\ UNCHANGED <<rlVars, lsVars, mwVars, rtVars, beVars, smVars, rbVars, rsVars, toVars, coVars, fsVars, auVars, rqVars>>

\* the downstream app sends http.response.start: through send_with_csrf,
\* which appends the Set-Cookie header, or through send for an excluded path
CsrfAppResponds ==
    /\ csrf_pc \in {"app", "app_plain"}
    /\ csrf_resp' = [status |-> 200,
                     set_cookie |-> IF csrf_pc = "app" THEN csrf_token ELSE ""]
    /\ csrf_pc' = "done"
    /\ UNCHANGED <<csrf_req, csrf_token, csrf_invoked>>
    /\ UNCHANGED <<rlVars, lsVars, mwVars, rtVars, beVars, smVars, rbVars, rsVars, toVars, coVars, fsVars, auVars, rqVars>>

NextCsrf ==
    \/ \E req \in CsrfRequests : CsrfProcess(req)
    \/ CsrfFormToken
    \/ CsrfReply403
    \/ CsrfAppResponds

\* ========================================================================
\* Session backends                                  src/src/thor/session.py
\* ========================================================================
MaxSessTime == 1        \* time.time() reads 0..MaxSessTime

\* the value a session holds under its key is one value of each kind: "int"
\* is 7, "tuple" is (1, 2), "list" is [1, 2], "set" is {1, 2}, and "none"
\* says the key is absent
SessValues == {"int", "tuple", "set"}

\* json.dumps accepts the value (a set raises TypeError)
JsonSerialisable(x) == x # "set"

\* json.loads(json.dumps(x)): a tuple comes back as a list
JsonRoundTrip(x) == IF x = "tuple" THEN "list" ELSE x

\* no SessionData: dict.get / load returning None, a file that does not exist
NoRecord == [data |-> "none", created_at |-> -1, accessed_at |-> -1, modified |-> FALSE]

\* session ids as character sequences; token_urlsafe yields only characters
\* of [a-zA-Z0-9_-], an id given to the backend API may hold others
SafeChars == {"a", "b"}
MintedIds == {<<"a">>, <<"b">>}
BackendIds == MintedIds \cup {<<"a", ".">>, <<".">>}

\* _path_for: re.sub(r"[^a-zA-Z0-9_\-]", "", session_id); the empty result
\* raises ValueError("Invalid session id")
SafeId(session_id) == SelectSeq(session_id, LAMBDA c : c \in SafeChars)

\* _deserialise(_serialise(data)): data through JSON, created_at and
\* accessed_at kept, modified back to the dataclass default
Serialise(data) ==
    [data |-> JsonRoundTrip(data.data), created_at |-> data.created_at,
     accessed_at |-> data.accessed_at, modified |-> FALSE]

\* load(session_id) at time t: the outcome, the SessionData returned and the
\* store afterwards (both backends stamp accessed_at; the file backend
\* writes the stamped record back)
BackendLoad(kind, store, session_id, t) ==
    LET key == IF kind = "memory" THEN session_id ELSE SafeId(session_id)
    IN  IF key = <<>>
        THEN [out |-> "raised", record |-> NoRecord, store |-> store]
        ELSE IF store[key] = NoRecord
        THEN [out |-> "none", record |-> NoRecord, store |-> store]
        ELSE LET data == [store[key] EXCEPT !.accessed_at = t]
             IN  [out |-> "record", record |-> data,
                  store |-> [store EXCEPT ![key] = data]]

\* save(session_id, data): the in-memory backend keeps the object, the file
\* backend replaces the file with its serialisation, or raises and leaves
\* the file alone
BackendSave(kind, store, session_id, data) ==
    IF kind = "memory"
    THEN [out |-> "ok", store |-> [store EXCEPT ![session_id] = data]]
    ELSE IF SafeId(session_id) = <<>> \/ ~JsonSerialisable(data.data)
    THEN [out |-> "raised", store |-> store]
    ELSE [out |-> "ok", store |-> [store EXCEPT ![SafeId(session_id)] = Serialise(data)]]

\* delete(session_id): pop(session_id, None), or unlink ignoring a missing file
BackendDelete(kind, store, session_id) ==
    LET key == IF kind = "memory" THEN session_id ELSE SafeId(session_id)
    IN  IF key = <<>>
        THEN [out |-> "raised", store |-> store]
        ELSE [out |-> "ok", store |-> [store EXCEPT ![key] = NoRecord]]

\* the ids, values and records the API is called with
ApiIds == {<<"a">>, <<"a", ".">>, <<".">>}
ApiRecords ==
    {[data |-> d, created_at |-> c, accessed_at |-> c, modified |-> FALSE] :
        d \in SessValues, c \in 0..MaxSessTime}

NoCall == [op |-> "none", id |-> <<>>, out |-> "none", record |-> NoRecord]

\* await backend.save(session_id, data)
Save(session_id, data) ==
    LET r == BackendSave(backend, sessions, session_id, data)
    IN  /\ sessions' = r.store
        /\ be_result' = [op |-> "save", id |-> session_id, out |-> r.out, record |-> NoRecord]
        /\ be_saved' = IF r.out = "ok" THEN [be_saved EXCEPT ![session_id] = data]
                       ELSE be_saved
        /\ UNCHANGED backend
        /\ UNCHANGED <<rlVars, lsVars, mwVars, rtVars, csVars, smVars, rbVars, rsVars, toVars, coVars, fsVars, auVars, rqVars>>

\* await backend.load(session_id), time.time() reading t
Load(session_id, t) ==
    LET r == BackendLoad(backend, sessions, session_id, t)
    IN  /\ sessions' = r.store
        /\ be_result' = [op |-> "load", id |-> session_id, out |-> r.out, record |-> r.record]
        /\ UNCHANGED <<backend, be_saved>>
        /\ UNCHANGED <<rlVars, lsVars, mwVars, rtVars, csVars, smVars, rbVars, rsVars, toVars, coVars, fsVars, auVars, rqVars>>

\* await backend.delete(session_id)
Delete(session_id) ==
    LET r == BackendDelete(backend, sessions, session_id)
    IN  /\ sessions' = r.store
        /\ be_result' = [op |-> "delete", id |-> session_id, out |-> r.out, record |-> NoRecord]
        /\ be_saved' = IF r.out = "ok" THEN [be_saved EXCEPT ![session_id] = NoRecord]
                       ELSE be_saved
        /\ UNCHANGED backend
        /\ UNCHANGED <<rlVars, lsVars, mwVars, rtVars, csVars, smVars, rbVars, rsVars, toVars, coVars, fsVars, auVars, rqVars>>

NextBackend ==
    \/ \E session_id \in ApiIds, data \in ApiRecords : Save(session_id, data)
    \/ \E session_id \in ApiIds, t \in 0..MaxSessTime : Load(session_id, t)
    \/ \E session_id \in ApiIds : Delete(session_id)

\* ========================================================================
\* SessionMiddleware                                 src/src/thor/session.py
\* ========================================================================
MaxSessTicks == 3       \* the clock stops after this many ticks
MaxSessReqs == 2        \* requests sent through the middleware
SessMaxAge == 1         \* max_age, in seconds

\* SecureCookie.sign(value) at tick t: "<int(time.time())>:<value>:<signature>",
\* the signature (an HMAC under the secret key) written as the text it covers
Sign(value, t) == [ts |-> t \div TicksPerSec, id |-> value, sig |-> <<t \div TicksPerSec, value>>]

UnsignAnySignature(cookie, t) ==
    IF t - cookie.ts * TicksPerSec > SessMaxAge * TicksPerSec THEN <<>> ELSE cookie.id

\* SecureCookie.unsign(signed_value, max_age) at tick t: the value, or <<>>
\* for None
Unsign(cookie, t) ==
    IF cookie.sig # <<cookie.ts, cookie.id>> THEN <<>>
    ELSE IF t - cookie.ts * TicksPerSec > SessMaxAge * TicksPerSec THEN <<>>
    ELSE cookie.id

\* request.get_cookie(self.cookie_name) is None
NoCookie == [ts |-> 0, id |-> <<>>, sig |-> <<>>]

\* what a client can send as the session cookie: nothing, a cookie it was
\* issued, or one with the timestamp or the id altered (it cannot compute a
\* signature, only reuse one it has seen)
ClientCookies ==
    {NoCookie} \cup
    [ts : 0..(MaxSessTicks \div TicksPerSec), id : MintedIds,
     sig : {<<c.ts, c.id>> : c \in sm_sent} \cup {<<>>}]

NoSessRequest ==
    [pc |-> "idle", cookie |-> NoCookie, at |-> 0, id |-> <<>>, aliased |-> FALSE,
     data |-> NoRecord, seen |-> "none", held |-> FALSE, stored |-> NoRecord,
     saved |-> FALSE]

\* SessionMiddleware.process up to `await self.app(...)`: the id out of the
\* cookie, the record loaded, or a fresh id (one that exists nowhere) and an
\* empty SessionData
SessProcess(cookie) ==
    LET session_id == IF cookie = NoCookie THEN <<>> ELSE Unsign(cookie, sm_clock)
        l == IF session_id # <<>>
             THEN BackendLoad(backend, sessions, session_id, sm_clock)
             ELSE [out |-> "none", record |-> NoRecord, store |-> sessions]
    IN  /\ sm_req.pc \in {"idle", "done", "raised", "failed"}
        /\ sm_n < MaxSessReqs
        /\ sm_n' = sm_n + 1
        /\ sessions' = l.store
        /\ IF l.out = "record"
           THEN sm_req' = [pc |-> "handler", cookie |-> cookie, at |-> sm_clock,
                           id |-> session_id, aliased |-> backend = "memory",
                           data |-> l.record, seen |-> l.record.data, held |-> TRUE,
                           stored |-> l.record, saved |-> FALSE]
           ELSE \E fresh \in MintedIds :
                    /\ fresh # cookie.id
                    /\ sessions[fresh] = NoRecord
                    /\ \A c \in sm_sent : c.id # fresh
                    /\ sm_req' = [pc |-> "handler", cookie |-> cookie, at |-> sm_clock,
                                  id |-> fresh, aliased |-> FALSE,
                                  data |-> [data |-> "none", created_at |-> sm_clock,
                                            accessed_at |-> sm_clock, modified |-> FALSE],
                                  seen |-> "none",
                                  held |-> cookie # NoCookie /\ sessions[cookie.id] # NoRecord,
                                  stored |-> NoRecord, saved |-> FALSE]
        /\ UNCHANGED <<backend, be_result, be_saved, sm_clock, sm_sent, sm_last>>
        /\ UNCHANGED <<rlVars, lsVars, mwVars, rtVars, csVars, rbVars, rsVars, toVars, coVars, fsVars, auVars, rqVars>>

\* the handler runs `session[key] = value` (Session.__setitem__); a record
\* loaded from the in-memory backend is the stored object itself
SessSet(value) ==
    LET data == [sm_req.data EXCEPT !.data = value, !.modified = TRUE]
    IN  /\ sm_req.pc = "handler"
        /\ sm_req' = [sm_req EXCEPT !.pc = "written", !.data = data]
        /\ sessions' = IF sm_req.aliased THEN [sessions EXCEPT ![sm_req.id] = data]
                       ELSE sessions
        /\ sm_last' = [sm_last EXCEPT ![sm_req.id] = value]
        /\ UNCHANGED <<backend, be_result, be_saved, sm_clock, sm_n, sm_sent>>
        /\ UNCHANGED <<rlVars, lsVars, mwVars, rtVars, csVars, rbVars, rsVars, toVars, coVars, fsVars, auVars, rqVars>>

\* send_with_session on http.response.start: save if modified (an exception
\* of save ends the request), then Set-Cookie with the signed id
SessRespond ==
    LET s == IF sm_req.data.modified
             THEN BackendSave(backend, sessions, sm_req.id, sm_req.data)
             ELSE [out |-> "ok", store |-> sessions]
    IN  /\ sm_req.pc \in {"handler", "written"}
        /\ sessions' = s.store
        /\ IF s.out = "raised"
           THEN /\ sm_req' = [sm_req EXCEPT !.pc = "raised", !.saved = TRUE]
                /\ UNCHANGED sm_sent
           ELSE /\ sm_req' = [sm_req EXCEPT !.pc = "done", !.saved = sm_req.data.modified]
                /\ sm_sent' = sm_sent \cup
                       {[ts |-> Sign(sm_req.id, sm_clock).ts, id |-> sm_req.id, at |-> sm_clock,
                         v |-> IF sm_req.pc = "written" THEN sm_req.data.data ELSE "none"]}
        /\ UNCHANGED <<backend, be_result, be_saved, sm_clock, sm_n, sm_last>>
        /\ UNCHANGED <<rlVars, lsVars, mwVars, rtVars, csVars, rbVars, rsVars, toVars, coVars, fsVars, auVars, rqVars>>

\* the handler (or a middleware below) raises before any http.response.start
\* has passed through send_with_session: process ends with the exception
SessRaise ==
    /\ sm_req.pc \in {"handler", "written"}
    /\ sm_req' = [sm_req EXCEPT !.pc = "failed"]
    /\ UNCHANGED <<backend, sessions, be_result, be_saved, sm_clock, sm_n, sm_sent, sm_last>>
    /\ UNCHANGED <<rlVars, lsVars, mwVars, rtVars, csVars, rbVars, rsVars, toVars, coVars, fsVars, auVars, rqVars>>

\* time passes
SessTick ==
    /\ sm_clock < MaxSessTicks
    /\ sm_clock' = sm_clock + 1
    /\ UNCHANGED <<backend, sessions, be_result, be_saved, sm_n, sm_req, sm_sent, sm_last>>
    /\ UNCHANGED <<rlVars, lsVars, mwVars, rtVars, csVars, rbVars, rsVars, toVars, coVars, fsVars, auVars, rqVars>>

NextSession ==
    \/ \E cookie \in ClientCookies : SessProcess(cookie)
    \/ \E value \in SessValues : SessSet(value)
    \/ SessRespond
    \/ SessRaise
    \/ SessTick

\* ========================================================================
\* Request.body                                      src/src/thor/request.py
\* ========================================================================
MaxChunks == 3          \* http.request messages of one body at most
MaxChunkLen == 2        \* bytes in one message at most
MaxBodyLimit == 2       \* max_body_size is drawn from 0..MaxBodyLimit
MaxBodyCalls == 2       \* body() calls on one request

RECURSIVE Total(_)
\* len(b"".join(chunks))
Total(chunks) == IF chunks = <<>> THEN 0 ELSE Head(chunks) + Total(Tail(chunks))

\* self._body is None
NoBody == <<-1>>

\* the requests: a body sent as 1..MaxChunks messages, with a Content-Length
\* header giving its length or without one (-1), under a limit (0: none)
BodyRequests ==
    {[sent |-> s, content_length |-> cl, max_body_size |-> m] :
        s \in UNION {[1..n -> 0..MaxChunkLen] : n \in 1..MaxChunks},
        cl \in {-1} \cup 0..(MaxChunks * MaxChunkLen),
        m \in 0..MaxBodyLimit}

\* body() is called and runs to its first await: the cached body, b"" for a
\* consumed stream, the Content-Length rejection, or into the receive loop
BodyCall ==
    /\ rb_pc \in {"idle", "returned", "raised"}
    /\ rb_calls < MaxBodyCalls
    /\ rb_calls' = rb_calls + 1
    /\ rb_chunks' = <<>>
    /\ IF rb_body # NoBody
       THEN rb_pc' = "returned" /\ rb_ret' = rb_body
       ELSE IF rb_consumed
       THEN rb_pc' = "returned" /\ rb_ret' = <<>>
       ELSE IF /\ rb_cfg.max_body_size > 0
               /\ rb_cfg.content_length # -1
               /\ rb_cfg.content_length > rb_cfg.max_body_size
       THEN rb_pc' = "raised" /\ rb_ret' = NoBody
       ELSE rb_pc' = "reading" /\ rb_ret' = NoBody
    /\ UNCHANGED <<rb_cfg, rb_msgs, rb_body, rb_consumed>>
    /\ UNCHANGED <<rlVars, lsVars, mwVars, rtVars, csVars, beVars, smVars, rsVars, toVars, coVars, fsVars, auVars, rqVars>>

\* `message = await self._receive()` returns and the loop body runs: the
\* next http.request message, or http.disconnect (no body, no more_body)
\* once the stream is exhausted
BodyReceive ==
    LET body == IF rb_msgs = <<>> THEN 0 ELSE Head(rb_msgs)
        more_body == Len(rb_msgs) > 1
        total_size == Total(rb_chunks) + body
        chunks == IF body > 0 THEN Append(rb_chunks, body) ELSE rb_chunks
    IN  /\ rb_pc = "reading"
        /\ rb_msgs' = IF rb_msgs = <<>> THEN <<>> ELSE Tail(rb_msgs)
        /\ IF body > 0 /\ rb_cfg.max_body_size > 0 /\ total_size > rb_cfg.max_body_size
           THEN /\ rb_pc' = "raised"
                /\ UNCHANGED <<rb_chunks, rb_body, rb_consumed, rb_ret>>
           ELSE IF more_body
           THEN /\ rb_chunks' = chunks
                /\ UNCHANGED <<rb_pc, rb_body, rb_consumed, rb_ret>>
           ELSE /\ rb_body' = chunks
                /\ rb_consumed' = TRUE
                /\ rb_pc' = "returned"
                /\ rb_ret' = chunks
                /\ UNCHANGED rb_chunks
        /\ UNCHANGED <<rb_cfg, rb_calls>>
        /\ UNCHANGED <<rlVars, lsVars, mwVars, rtVars, csVars, beVars, smVars, rsVars, toVars, coVars, fsVars, auVars, rqVars>>

NextBody ==
    \/ BodyCall
    \/ BodyReceive

\* ========================================================================
\* Response emission      src/src/thor/response.py, app.py, middleware/error_handler.py
\* ========================================================================
MaxStreamChunks == 3    \* chunks a streaming producer yields at most

\* the ways a request is answered: a middleware short-circuits with a
\* response ("short"), the handler returns a response that is rendered whole
\* ("plain"), the handler raises ("raise"), or it returns a
\* StreamingResponse over `chunks` chunks whose producer raises after
\* `fail_at` of them (-1: never).  `exc` is the kind of exception raised.
Plans ==
    {[kind |-> k, chunks |-> 0, fail_at |-> -1, exc |-> "none"] : k \in {"short", "plain"}}
    \cup {[kind |-> "raise", chunks |-> 0, fail_at |-> -1, exc |-> e] : e \in {"http", "other"}}
    \cup {[kind |-> "stream", chunks |-> n, fail_at |-> -1, exc |-> "none"] : n \in 0..MaxStreamChunks}
    \cup {p \in [kind : {"stream"}, chunks : 0..MaxStreamChunks, fail_at : 0..MaxStreamChunks,
                  exc : {"http", "other"}] : p.fail_at <= p.chunks}

\* an ASGI message as the host sees it
Message(type, status, more_body) == [type |-> type, status |-> status, more_body |-> more_body]

\* Thor.__call__ for an http scope, to the first send: a short-circuiting
\* middleware or _handle_request calls `response(send)`, or the handler
\* raises into ErrorHandlerMiddleware.process
RespBegin(plan) ==
    /\ rs_pc \in {"idle", "done"}
    /\ rs_plan' = plan
    /\ rs_pc' = IF plan.kind = "raise" THEN "except" ELSE "start"
    /\ rs_i' = 0
    /\ rs_host' = <<>>
    /\ UNCHANGED <<rlVars, lsVars, mwVars, rtVars, csVars, beVars, smVars, rbVars, toVars, coVars, fsVars, auVars, rqVars>>

\* Response.__call__ / StreamingResponse.__call__: the http.response.start
RespStart ==
    /\ rs_pc = "start"
    /\ rs_host' = Append(rs_host, Message("http.response.start",
                                          IF rs_plan.kind = "short" THEN 403 ELSE 200, FALSE))
    /\ rs_pc' = IF rs_plan.kind = "stream" THEN "iter" ELSE "body"
    /\ UNCHANGED <<rs_plan, rs_i>>
    /\ UNCHANGED <<rlVars, lsVars, mwVars, rtVars, csVars, beVars, smVars, rbVars, toVars, coVars, fsVars, auVars, rqVars>>

\* Response.__call__: the http.response.body with the rendered body
RespBody ==
    /\ rs_pc = "body"
    /\ rs_host' = Append(rs_host, Message("http.response.body", 0, FALSE))
    /\ rs_pc' = "done"
    /\ UNCHANGED <<rs_plan, rs_i>>
    /\ UNCHANGED <<rlVars, lsVars, mwVars, rtVars, csVars, beVars, smVars, rbVars, toVars, coVars, fsVars, auVars, rqVars>>

\* StreamingResponse.__call__: `async for chunk in self._iterator` yields a
\* chunk, which is sent, or raises, or ends, and the closing body is sent
RespIterate ==
    /\ rs_pc = "iter"
    /\ IF rs_i = rs_plan.fail_at
       THEN rs_pc' = "except" /\ UNCHANGED <<rs_i, rs_host>>
       ELSE IF rs_i < rs_plan.chunks
       THEN /\ rs_host' = Append(rs_host, Message("http.response.body", 0, TRUE))
            /\ rs_i' = rs_i + 1
            /\ UNCHANGED rs_pc
       ELSE /\ rs_host' = Append(rs_host, Message("http.response.body", 0, FALSE))
            /\ rs_pc' = "done"
            /\ UNCHANGED rs_i
    /\ UNCHANGED rs_plan
    /\ UNCHANGED <<rlVars, lsVars, mwVars, rtVars, csVars, beVars, smVars, rbVars, toVars, coVars, fsVars, auVars, rqVars>>

\* ErrorHandlerMiddleware.process, `except HTTPException` / `except Exception`:
\* a JSONResponse is built and its http.response.start sent
ErrorStart ==
    /\ rs_pc = "except"
    /\ rs_host' = Append(rs_host, Message("http.response.start",
                                          IF rs_plan.exc = "http" THEN 404 ELSE 500, FALSE))
    /\ rs_pc' = "body"
    /\ UNCHANGED <<rs_plan, rs_i>>
    /\ UNCHANGED <<rlVars, lsVars, mwVars, rtVars, csVars, beVars, smVars, rbVars, toVars, coVars, fsVars, auVars, rqVars>>

NextResponse ==
    \/ \E plan \in Plans : RespBegin(plan)
    \/ RespStart
    \/ RespBody
    \/ RespIterate
    \/ ErrorStart

\* ========================================================================
\* TimeoutMiddleware                         src/src/thor/middleware/timeout.py
\* ========================================================================
\* The chain is ErrorHandlerMiddleware -> TimeoutMiddleware -> downstream.
\* The downstream chain is any coroutine: between two of its await points it
\* may send a message, return, or raise.
MaxTimeout == 2         \* _timeout is 1..MaxTimeout ticks
MaxDownstreamMsgs == 3  \* messages the downstream chain sends at most

\* what the except branch of TimeoutMiddleware.process and then the except
\* branches of ErrorHandlerMiddleware.process make of an exception that leaves
\* asyncio.wait_for: the status of the error response, 0 when the exception
\* passes through both (CancelledError is not an Exception)
ErrorStatus(exc) ==
    CASE exc = "TimeoutError" -> 504
      [] exc = "HTTPException" -> 404
      [] exc = "Exception" -> 500
      [] exc = "CancelledError" -> 0

\* an exception leaves wait_for: up to the first send of the error response
RaiseFromWaitFor(exc) ==
    IF ErrorStatus(exc) = 0
    THEN /\ to_pc' = "cancelled"
         /\ UNCHANGED to_host
    ELSE /\ to_pc' = "error_body"
         /\ to_host' = Append(to_host, Message("http.response.start", ErrorStatus(exc), FALSE))

\* ErrorHandlerMiddleware.process calls TimeoutMiddleware.process, which
\* starts asyncio.wait_for(self.app(scope, receive, send), timeout)
TimeoutCall ==
    /\ to_pc \in {"idle", "done", "cancelled"}
    /\ to_pc' = "downstream"
    /\ to_elapsed' = 0
    /\ to_host' = <<>>
    /\ to_deadline' = FALSE
    /\ UNCHANGED to_timeout
    /\ UNCHANGED <<rlVars, lsVars, mwVars, rtVars, csVars, beVars, smVars, rbVars, rsVars, coVars, fsVars, auVars, rqVars>>

\* the downstream chain sends: it was given the send of the error handler,
\* so the message goes to the host at once
DownstreamSend(more_body) ==
    /\ to_pc = "downstream"
    /\ Len(to_host) < MaxDownstreamMsgs
    /\ to_host # <<>> => \/ to_host[Len(to_host)].type = "http.response.start"
                          \/ to_host[Len(to_host)].more_body
    /\ to_host' = Append(to_host,
                         IF to_host = <<>>
                         THEN Message("http.response.start", 200, FALSE)
                         ELSE Message("http.response.body", 200, more_body))
    /\ UNCHANGED <<to_timeout, to_pc, to_elapsed, to_deadline>>
    /\ UNCHANGED <<rlVars, lsVars, mwVars, rtVars, csVars, beVars, smVars, rbVars, rsVars, coVars, fsVars, auVars, rqVars>>

\* the downstream chain returns before the deadline
DownstreamReturn ==
    /\ to_pc = "downstream"
    /\ to_pc' = "done"
    /\ UNCHANGED <<to_timeout, to_elapsed, to_host, to_deadline>>
    /\ UNCHANGED <<rlVars, lsVars, mwVars, rtVars, csVars, beVars, smVars, rbVars, rsVars, coVars, fsVars, auVars, rqVars>>

\* the downstream chain raises before the deadline
DownstreamRaise(exc) ==
    /\ to_pc = "downstream"
    /\ RaiseFromWaitFor(exc)
    /\ UNCHANGED <<to_timeout, to_elapsed, to_deadline>>
    /\ UNCHANGED <<rlVars, lsVars, mwVars, rtVars, csVars, beVars, smVars, rbVars, rsVars, coVars, fsVars, auVars, rqVars>>

\* time passes while the downstream chain is suspended
TimeoutTick ==
    /\ to_pc = "downstream"
    /\ to_elapsed < to_timeout
    /\ to_elapsed' = to_elapsed + 1
    /\ UNCHANGED <<to_timeout, to_pc, to_host, to_deadline>>
    /\ UNCHANGED <<rlVars, lsVars, mwVars, rtVars, csVars, beVars, smVars, rbVars, rsVars, coVars, fsVars, auVars, rqVars>>

\* the deadline elapses: wait_for cancels the downstream task and raises
\* TimeoutError
Deadline ==
    /\ to_pc = "downstream"
    /\ to_elapsed = to_timeout
    /\ to_deadline' = TRUE
    /\ RaiseFromWaitFor("TimeoutError")
    /\ UNCHANGED <<to_timeout, to_elapsed>>
    /\ UNCHANGED <<rlVars, lsVars, mwVars, rtVars, csVars, beVars, smVars, rbVars, rsVars, coVars, fsVars, auVars, rqVars>>

\* JSONResponse.__call__ of the error response: the body
ErrorBody ==
    /\ to_pc = "error_body"
    /\ to_host' = Append(to_host, Message("http.response.body", to_host[Len(to_host)].status, FALSE))
    /\ to_pc' = "done"
    /\ UNCHANGED <<to_timeout, to_elapsed, to_deadline>>
    /\ UNCHANGED <<rlVars, lsVars, mwVars, rtVars, csVars, beVars, smVars, rbVars, rsVars, coVars, fsVars, auVars, rqVars>>

\* the host cancels the request task at an await point: wait_for cancels the
\* downstream task and re-raises CancelledError, which no except branch of
\* the error handler catches
CancelRequest ==
    /\ to_pc \in {"downstream", "error_body"}
    /\ to_pc' = "cancelled"
    /\ UNCHANGED <<to_timeout, to_elapsed, to_host, to_deadline>>
    /\ UNCHANGED <<rlVars, lsVars, mwVars, rtVars, csVars, beVars, smVars, rbVars, rsVars, coVars, fsVars, auVars, rqVars>>

NextTimeout ==
    \/ TimeoutCall
    \/ \E more_body \in BOOLEAN : DownstreamSend(more_body)
    \/ DownstreamReturn
    \/ \E exc \in {"TimeoutError", "HTTPException", "Exception", "CancelledError"} : DownstreamRaise(exc)
    \/ TimeoutTick
    \/ Deadline
    \/ ErrorBody
    \/ CancelRequest

\* ========================================================================
\* CORSMiddleware                               src/src/thor/middleware/cors.py
\* ========================================================================
\* Origins and header values are sequences of pieces, so that str.endswith
\* is the suffix relation; a compiled regex is the set of origins it
\* matches in full (the empty set: no regex).
EndsWith(s, suffix) ==
    /\ Len(suffix) <= Len(s)
    /\ SubSeq(s, Len(s) - Len(suffix) + 1, Len(s)) = suffix

AllowOriginEntries == {<<"*">>, <<"https://x.com">>, <<"*", ".example.com">>}
RequestOrigins == {<<>>, <<"*">>, <<"https://x.com">>, <<"https://foo", ".example.com">>,
                   <<"https://r.com">>, <<"https://evil.com">>}
NoCorsResponse == [status |-> 0, headers |-> <<>>]
Header(name, value) == [name |-> name, value |-> <<value>>]

\* CORSMiddleware.__init__; valid is false where it raises ValueError
CorsInit(allow_origins, allow_credentials, regex) ==
    LET wildcard_origins == {Tail(o) : o \in {a \in allow_origins : a[1] = "*" /\ Len(a) > 1}}
        allow_all == <<"*">> \in allow_origins /\ wildcard_origins = {}
    IN  [allow_origins |-> allow_origins, allow_credentials |-> allow_credentials,
         regex |-> regex, wildcard_origins |-> wildcard_origins, allow_all |-> allow_all,
         valid |-> ~(allow_credentials /\ allow_all /\ regex = {})]

\* CORSMiddleware._is_origin_allowed
IsOriginAllowed(origin) ==
    \/ cors_cfg.allow_all
    \/ origin \in cors_cfg.allow_origins
    \/ \E suffix \in cors_cfg.wildcard_origins : EndsWith(origin, suffix)
    \/ origin \in cors_cfg.regex

GetCorsHeadersNoVary(origin) ==
    (IF cors_cfg.allow_all /\ ~cors_cfg.allow_credentials
     THEN <<Header("access-control-allow-origin", "*")>>
     ELSE IF origin # <<>> /\ IsOriginAllowed(origin)
     THEN <<[name |-> "access-control-allow-origin", value |-> origin]>>
     ELSE <<>>)
    \o (IF cors_cfg.allow_credentials
        THEN <<Header("access-control-allow-credentials", "true")>> ELSE <<>>)

\* CORSMiddleware._get_cors_headers (expose_headers left empty)
GetCorsHeaders(origin) ==
    (IF cors_cfg.allow_all /\ ~cors_cfg.allow_credentials
     THEN <<Header("access-control-allow-origin", "*")>>
     ELSE IF origin # <<>> /\ IsOriginAllowed(origin)
     THEN <<[name |-> "access-control-allow-origin", value |-> origin],
            Header("vary", "Origin")>>
     ELSE <<>>)
    \o (IF cors_cfg.allow_credentials
        THEN <<Header("access-control-allow-credentials", "true")>> ELSE <<>>)

\* CORSMiddleware.process up to its first await: an OPTIONS request is answered
\* by _send_preflight_response, any other goes to self.app with send_with_cors
CorsProcess(method, origin) ==
    /\ cors_pc \in {"idle", "done"}
    /\ cors_req' = [method |-> method, origin |-> origin]
    /\ IF method = "OPTIONS"
       THEN /\ cors_resp' = [status |-> 204,
                             headers |-> GetCorsHeaders(origin)
                                 \o <<Header("access-control-allow-methods", "GET, POST"),
                                      Header("access-control-allow-headers", "*"),
                                      Header("access-control-max-age", "600")>>]
            /\ cors_pc' = "preflight_body"
       ELSE /\ cors_resp' = NoCorsResponse
            /\ cors_pc' = "in_app"
    /\ UNCHANGED cors_cfg
    /\ UNCHANGED <<rlVars, lsVars, mwVars, rtVars, csVars, beVars, smVars, rbVars, rsVars, toVars, fsVars, auVars, rqVars>>

\* send_with_cors: the downstream app sends its http.response.start, with
\* headers of its own
CorsSendStart(headers) ==
    /\ cors_pc = "in_app"
    /\ cors_resp = NoCorsResponse
    /\ cors_resp' = [status |-> 200, headers |-> headers \o GetCorsHeaders(cors_req.origin)]
    /\ UNCHANGED <<cors_cfg, cors_req, cors_pc>>
    /\ UNCHANGED <<rlVars, lsVars, mwVars, rtVars, csVars, beVars, smVars, rbVars, rsVars, toVars, fsVars, auVars, rqVars>>

\* the body is sent and process returns
CorsReturn ==
    /\ \/ cors_pc = "preflight_body"
       \/ cors_pc = "in_app" /\ cors_resp # NoCorsResponse
    /\ cors_pc' = "done"
    /\ UNCHANGED <<cors_cfg, cors_req, cors_resp>>
    /\ UNCHANGED <<rlVars, lsVars, mwVars, rtVars, csVars, beVars, smVars, rbVars, rsVars, toVars, fsVars, auVars, rqVars>>

NextCors ==
    \/ \E method \in {"GET", "OPTIONS"}, origin \in RequestOrigins : CorsProcess(method, origin)
    \/ \E headers \in {<<>>, <<Header("vary", "Accept-Encoding")>>} : CorsSendStart(headers)
    \/ CorsReturn

\* ========================================================================
\* FileSessionBackend in a shared directory          src/src/thor/session.py
\* ========================================================================
\* Several workers (processes) use one directory and one session id; their
\* file-system calls interleave freely.  A file's content is the record
\* written to it and whether the write has completed; of accessed_at only
\* who set it is kept: the caller of save, or load with time.time().
MaxWorkers == 2         \* workers sharing the directory

Workers == 1..MaxWorkers
FsData == {"r0", "r1"}
NoFile == [data |-> "", accessed_at |-> "", complete |-> FALSE, exists |-> FALSE]
NoData == ""
Idle == [pc |-> "idle", rec |-> NoFile, internal |-> FALSE, read |-> NoFile, ret |-> ""]

\* _path_for(session_id): <directory>/<safe_id>.json
TargetPath == <<"json", 0>>

TmpPathIsTarget(w) == TargetPath

\* tempfile.mkstemp(dir=self._directory, suffix=".tmp"): a name no other call has
TmpPath(w) == <<"tmp", w>>

FsPaths == {TargetPath} \cup {TmpPath(w) : w \in Workers}

\* a worker calls load(id), save(id, data) or delete(id)
FsCall(w, op, data) ==
    /\ fs_w[w].pc = "idle"
    /\ fs_w' = [fs_w EXCEPT ![w] =
                   [Idle EXCEPT !.pc = CASE op = "load" -> "load_exists"
                                         [] op = "save" -> "save_mkstemp"
                                         [] op = "delete" -> "delete_unlink",
                                !.rec = IF op = "save"
                                        THEN [data |-> data, accessed_at |-> "caller",
                                              complete |-> TRUE, exists |-> TRUE]
                                        ELSE NoFile]]
    /\ UNCHANGED <<fs_files, fs_last>>
    /\ UNCHANGED <<rlVars, lsVars, mwVars, rtVars, csVars, beVars, smVars, rbVars, rsVars, toVars, coVars, auVars, rqVars>>

\* load: `if not os.path.exists(path): return None`
LoadExists(w) ==
    /\ fs_w[w].pc = "load_exists"
    /\ fs_w' = [fs_w EXCEPT ![w] = IF fs_files[TargetPath].exists
                                   THEN [@ EXCEPT !.pc = "load_read"]
                                   ELSE [@ EXCEPT !.pc = "idle", !.ret = "None"]]
    /\ UNCHANGED <<fs_files, fs_last>>
    /\ UNCHANGED <<rlVars, lsVars, mwVars, rtVars, csVars, beVars, smVars, rbVars, rsVars, toVars, coVars, auVars, rqVars>>

\* load: open and read the file, deserialise, set accessed_at; a missing file
\* (OSError) or an incomplete one (ValueError) makes load return None
LoadRead(w) ==
    /\ fs_w[w].pc = "load_read"
    /\ fs_w' = [fs_w EXCEPT ![w] =
                   IF fs_files[TargetPath].exists /\ fs_files[TargetPath].complete
                   THEN [@ EXCEPT !.pc = "save_mkstemp", !.internal = TRUE,
                                  !.read = fs_files[TargetPath],
                                  !.rec = [fs_files[TargetPath] EXCEPT !.accessed_at = "time.time()"]]
                   ELSE [@ EXCEPT !.pc = "idle", !.ret = "None",
                                  !.read = fs_files[TargetPath]]]
    /\ UNCHANGED <<fs_files, fs_last>>
    /\ UNCHANGED <<rlVars, lsVars, mwVars, rtVars, csVars, beVars, smVars, rbVars, rsVars, toVars, coVars, auVars, rqVars>>

\* save: tempfile.mkstemp creates an empty file
SaveMkstemp(w) ==
    /\ fs_w[w].pc = "save_mkstemp"
    /\ fs_files' = [fs_files EXCEPT ![TmpPath(w)] = [NoFile EXCEPT !.exists = TRUE]]
    /\ fs_w' = [fs_w EXCEPT ![w].pc = "save_write"]
    /\ UNCHANGED fs_last
    /\ UNCHANGED <<rlVars, lsVars, mwVars, rtVars, csVars, beVars, smVars, rbVars, rsVars, toVars, coVars, auVars, rqVars>>

\* save: f.write(self._serialise(data)) and the close of the file
SaveWrite(w) ==
    /\ fs_w[w].pc = "save_write"
    /\ fs_files' = [fs_files EXCEPT ![TmpPath(w)] = fs_w[w].rec]
    /\ fs_w' = [fs_w EXCEPT ![w].pc = "save_replace"]
    /\ UNCHANGED fs_last
    /\ UNCHANGED <<rlVars, lsVars, mwVars, rtVars, csVars, beVars, smVars, rbVars, rsVars, toVars, coVars, auVars, rqVars>>

\* save: os.replace(tmp_path, path); save returns, and load (when the save
\* is its own) returns the data
SaveReplace(w) ==
    /\ fs_w[w].pc = "save_replace"
    /\ fs_files' = IF TmpPath(w) = TargetPath THEN fs_files
                   ELSE [fs_files EXCEPT ![TargetPath] = fs_files[TmpPath(w)],
                                         ![TmpPath(w)] = NoFile]
    /\ fs_w' = [fs_w EXCEPT ![w] = [Idle EXCEPT !.ret = IF fs_w[w].internal
                                                         THEN fs_w[w].rec.data ELSE "ok"]]
    /\ fs_last' = IF fs_w[w].internal THEN fs_last ELSE fs_w[w].rec.data
    /\ UNCHANGED <<rlVars, lsVars, mwVars, rtVars, csVars, beVars, smVars, rbVars, rsVars, toVars, coVars, auVars, rqVars>>

SaveFailsLeavingTemp(w) ==
    /\ fs_w[w].pc \in {"save_write", "save_replace"}
    /\ fs_w' = [fs_w EXCEPT ![w] = [Idle EXCEPT !.ret = IF fs_w[w].internal
                                                         THEN "None" ELSE "raised"]]
    /\ UNCHANGED <<fs_files, fs_last>>
    /\ UNCHANGED <<rlVars, lsVars, mwVars, rtVars, csVars, beVars, smVars, rbVars, rsVars, toVars, coVars, auVars, rqVars>>

\* save: the write or the rename raises; `except BaseException` unlinks the
\* temp file and re-raises.  load catches the OSError of its own save and
\* returns None
SaveFails(w) ==
    /\ fs_w[w].pc \in {"save_write", "save_replace"}
    /\ fs_files' = [fs_files EXCEPT ![TmpPath(w)] = NoFile]
    /\ fs_w' = [fs_w EXCEPT ![w] = [Idle EXCEPT !.ret = IF fs_w[w].internal
                                                         THEN "None" ELSE "raised"]]
    /\ UNCHANGED fs_last
    /\ UNCHANGED <<rlVars, lsVars, mwVars, rtVars, csVars, beVars, smVars, rbVars, rsVars, toVars, coVars, auVars, rqVars>>

\* delete: os.unlink(path), FileNotFoundError ignored
DeleteUnlink(w) ==
    /\ fs_w[w].pc = "delete_unlink"
    /\ fs_files' = [fs_files EXCEPT ![TargetPath] = NoFile]
    /\ fs_w' = [fs_w EXCEPT ![w] = [Idle EXCEPT !.ret = "ok"]]
    /\ fs_last' = NoData
    /\ UNCHANGED <<rlVars, lsVars, mwVars, rtVars, csVars, beVars, smVars, rbVars, rsVars, toVars, coVars, auVars, rqVars>>

NextFiles ==
    \/ \E w \in Workers, op \in {"load", "save", "delete"}, data \in FsData : FsCall(w, op, data)
    \/ \E w \in Workers : LoadExists(w)
    \/ \E w \in Workers : LoadRead(w)
    \/ \E w \in Workers : SaveMkstemp(w)
    \/ \E w \in Workers : SaveWrite(w)
    \/ \E w \in Workers : SaveReplace(w)
    \/ \E w \in Workers : SaveFails(w)
    \/ \E w \in Workers : DeleteUnlink(w)

\* ========================================================================
\* AuthMiddleware, TokenAuthBackend, JWTAuthBackend          src/src/thor/auth.py
\* ========================================================================
\* An Authorization header value is a sequence of pieces; the piece " " is a
\* space, every other piece a run of characters without a space.
SecretKey == "k"

\* compact JWTs: the key and algorithm they were signed with, whether their
\* exp lies in the past, and their payload
Absent == "<absent>"

JwtOf(piece) ==
    CASE piece = "t_full"    -> [key |-> "k", alg |-> "HS256", expired |-> FALSE,
                                 payload |-> [sub |-> "u1", username |-> "ann", scopes |-> "admin"]]
      [] piece = "t_sub"     -> [key |-> "k", alg |-> "HS256", expired |-> FALSE,
                                 payload |-> [sub |-> "u1", username |-> Absent, scopes |-> Absent]]
      [] piece = "t_nosub"   -> [key |-> "k", alg |-> "HS256", expired |-> FALSE,
                                 payload |-> [sub |-> Absent, username |-> "ann", scopes |-> Absent]]
      [] piece = "t_expired" -> [key |-> "k", alg |-> "HS256", expired |-> TRUE,
                                 payload |-> [sub |-> "u1", username |-> "ann", scopes |-> Absent]]
      [] piece = "t_badsig"  -> [key |-> "other", alg |-> "HS256", expired |-> FALSE,
                                 payload |-> [sub |-> "u1", username |-> "ann", scopes |-> Absent]]
      [] piece = "t_none"    -> [key |-> "", alg |-> "none", expired |-> FALSE,
                                 payload |-> [sub |-> "u1", username |-> Absent, scopes |-> Absent]]

JwtPieces == {"t_full", "t_sub", "t_nosub", "t_expired", "t_badsig", "t_none"}

\* the Authorization header values sent
AuthHeaders ==
    {<<>>, <<"Bearer">>, <<"Bearer", " ">>, <<"Basic", " ", "t_full">>,
     <<"bearer", " ", "t_full">>, <<"Bearer", " ", "garbage">>,
     <<"Bearer", " ", "t_full", " ", "x">>}
        \cup {<<"Bearer", " ", t>> : t \in JwtPieces}

\* request paths, as sequences of pieces like the texts of the CSRF middleware
AuthPaths == {<<"/api", "/me">>, <<"/public", "/info">>}

\* str.lower on a piece
Lower(piece) ==
    CASE piece \in {"Bearer", "bearer", "BEARER"} -> "bearer"
      [] piece \in {"Token", "token"} -> "token"
      [] piece \in {"Basic", "basic"} -> "basic"
      [] OTHER -> piece

LowerAll(s) == [i \in 1..Len(s) |-> Lower(s[i])]

AnonymousUser == [is_authenticated |-> FALSE, id |-> "", username |-> Absent, scopes |-> Absent]

User(id, username, scopes) ==
    [is_authenticated |-> TRUE, id |-> id, username |-> username, scopes |-> scopes]

NoUser == [is_authenticated |-> FALSE, id |-> "<unset>", username |-> Absent, scopes |-> Absent]

\* what a call returns or raises
Returns(value) == [exc |-> "", value |-> value]

Raises(exc) == [exc |-> exc, value |-> NoUser]

\* auth_header.split(" ", 1): the index of the first space, 0 when there is
\* none (the unpacking into scheme, token then raises ValueError)
FirstSpace(header) ==
    IF \E i \in 1..Len(header) : header[i] = " "
    THEN CHOOSE i \in 1..Len(header) : header[i] = " " /\ \A j \in 1..(i - 1) : header[j] # " "
    ELSE 0

\* jwt.decode(token, key, algorithms=[algorithm]): the payload, or the
\* exception raised.  ExpiredSignatureError, DecodeError, InvalidSignatureError
\* and InvalidAlgorithmError are all subclasses of InvalidTokenError.
JwtDecode(token, key, algorithm) ==
    IF Len(token) # 1 \/ token[1] \notin JwtPieces
    THEN [exc |-> "DecodeError", payload |-> <<>>]
    ELSE LET t == JwtOf(token[1])
         IN  IF t.alg # algorithm THEN [exc |-> "InvalidAlgorithmError", payload |-> <<>>]
             ELSE IF t.key # key THEN [exc |-> "InvalidSignatureError", payload |-> <<>>]
             ELSE IF t.expired THEN [exc |-> "ExpiredSignatureError", payload |-> <<>>]
             ELSE [exc |-> "", payload |-> t.payload]

InvalidTokenErrors ==
    {"DecodeError", "InvalidAlgorithmError", "InvalidSignatureError", "ExpiredSignatureError"}

\* the body of the try in JWTAuthBackend.authenticate: payload["sub"] raises
\* KeyError when the payload has no sub; payload.get gives a default
JwtUser(payload, with_scopes) ==
    IF payload.sub = Absent THEN Raises("KeyError")
    ELSE Returns(User(payload.sub, payload.username,
                      IF with_scopes THEN payload.scopes ELSE Absent))

\* JWTAuthBackend.authenticate
JwtAuthenticate(b, has_header, header) ==
    IF ~has_header \/ header = <<>> THEN Returns(AnonymousUser)
    ELSE LET sp == FirstSpace(header)
         IN  IF sp = 0 THEN Returns(AnonymousUser)
             ELSE IF LowerAll(SubSeq(header, 1, sp - 1)) # <<Lower(b.token_prefix)>>
                  THEN Returns(AnonymousUser)
             ELSE LET d == JwtDecode(SubSeq(header, sp + 1, Len(header)), b.secret_key, b.algorithm)
                  IN  IF d.exc = "ExpiredSignatureError" THEN Returns(AnonymousUser)
                      ELSE IF d.exc \in InvalidTokenErrors THEN Returns(AnonymousUser)
                      ELSE JwtUser(d.payload, TRUE)

\* TokenAuthBackend.verify_token: None (written AnonymousUser's place by the
\* caller) on the jwt errors, the KeyError of payload["sub"] is not caught
VerifyToken(b, token) ==
    LET d == JwtDecode(token, b.secret_key, b.algorithm)
    IN  IF d.exc = "ExpiredSignatureError" THEN Returns(NoUser)
        ELSE IF d.exc \in InvalidTokenErrors THEN Returns(NoUser)
        ELSE JwtUser(d.payload, FALSE)

\* TokenAuthBackend.authenticate; b.verify is the injected verifier: "none",
\* or "verify_token", the backend's own method
TokenAuthenticate(b, has_header, header) ==
    IF ~has_header \/ header = <<>> THEN Returns(AnonymousUser)
    ELSE LET sp == FirstSpace(header)
         IN  IF sp = 0 THEN Returns(AnonymousUser)
             ELSE IF LowerAll(SubSeq(header, 1, sp - 1)) # <<Lower(b.token_prefix)>>
                  THEN Returns(AnonymousUser)
             ELSE IF b.verify = "none" THEN Returns(AnonymousUser)
             ELSE LET v == VerifyToken(b, SubSeq(header, sp + 1, Len(header)))
                  IN  IF v.exc # "" THEN v
                      ELSE IF v.value # NoUser THEN v
                      ELSE Returns(AnonymousUser)

Authenticate(b, has_header, header) ==
    IF b.kind = "jwt" THEN JwtAuthenticate(b, has_header, header)
    ELSE TokenAuthenticate(b, has_header, header)

AuthBackends ==
    [kind : {"jwt"}, secret_key : {SecretKey}, algorithm : {"HS256"},
     token_prefix : {"Bearer", "Token"}, verify : {"none"},
     exclude_paths : {{}, {<<"/public">>}}]
        \cup [kind : {"token"}, secret_key : {SecretKey}, algorithm : {"HS256"},
              token_prefix : {"Bearer", "Token"}, verify : {"none", "verify_token"},
              exclude_paths : {{}, {<<"/public">>}}]

NoAuthRequest ==
    [pc |-> "idle", path |-> <<>>, has_header |-> FALSE, header |-> <<>>,
     user |-> NoUser, app_called |-> FALSE, exc |-> ""]

\* AuthMiddleware.process up to `await self.app(scope, receive, send)`, or to
\* the exception that leaves it
AuthProcess(path, has_header, header) ==
    /\ au_req.pc \in {"idle", "done", "raised"}
    /\ IF \E p \in au_backend.exclude_paths : StartsWith(path, p)
       THEN au_req' = [pc |-> "in_app", path |-> path, has_header |-> has_header,
                       header |-> header, user |-> AnonymousUser,
                       app_called |-> TRUE, exc |-> ""]
       ELSE LET r == Authenticate(au_backend, has_header, header)
            IN  IF r.exc # ""
                THEN au_req' = [pc |-> "raised", path |-> path, has_header |-> has_header,
                                header |-> header, user |-> NoUser,
                                app_called |-> FALSE, exc |-> r.exc]
                ELSE au_req' = [pc |-> "in_app", path |-> path, has_header |-> has_header,
                                header |-> header, user |-> r.value,
                                app_called |-> TRUE, exc |-> ""]
    /\ UNCHANGED au_backend
    /\ UNCHANGED <<rlVars, lsVars, mwVars, rtVars, csVars, beVars, smVars, rbVars, rsVars, toVars, coVars, fsVars, rqVars>>

\* await self.app(scope, receive, send) returns
AuthAppReturns ==
    /\ au_req.pc = "in_app"
    /\ au_req' = [au_req EXCEPT !.pc = "done"]
    /\ UNCHANGED au_backend
    /\ UNCHANGED <<rlVars, lsVars, mwVars, rtVars, csVars, beVars, smVars, rbVars, rsVars, toVars, coVars, fsVars, rqVars>>

NextAuth ==
    \/ \E path \in AuthPaths, header \in AuthHeaders : AuthProcess(path, TRUE, header)
    \/ \E path \in AuthPaths : AuthProcess(path, FALSE, <<>>)
    \/ AuthAppReturns

\* ========================================================================
\* The Request objects of one request     src/src/thor/middleware/csrf.py, app.py
\* ========================================================================
\* A middleware that looks at the request builds its own Request(scope,
\* receive) (CSRFMiddleware.process; _get_form_token reads its body through
\* form()); Thor._handle_request later builds another one over the same
\* receive and hands it to the route handler.  rb_body, rb_consumed and
\* rb_calls are those of the object named by rq_obj; rb_msgs, the adapter's
\* stream, is shared.

\* the middleware calls self.app and the request reaches
\* Thor._handle_request: `request = Request(scope, receive)`; the middleware
\* has read the body through its own object, or has not touched it
HandleRequest ==
    /\ rq_obj = "middleware"
    /\ rb_pc \in {"idle", "returned"}
    /\ rq_obj' = "handler"
    /\ rb_body' = NoBody
    /\ rb_consumed' = FALSE
    /\ rb_calls' = 0
    /\ rb_pc' = "idle"
    /\ rb_chunks' = <<>>
    /\ rb_ret' = NoBody
    /\ UNCHANGED <<rb_cfg, rb_msgs>>
    /\ UNCHANGED <<rlVars, lsVars, mwVars, rtVars, csVars, beVars, smVars, rsVars, toVars, coVars, fsVars, auVars>>

NextRequestChain ==
    \/ BodyCall
    \/ BodyReceive
    \/ HandleRequest

\* ========================================================================
\* Specifications: one per component, the others at rest
\* ========================================================================
InitRateLimit ==
    /\ now = 0
    /\ max_requests \in 1..MaxMaxRequests
    /\ window \in 1..MaxWindow
    /\ requests = [ip \in {} |-> <<>>]
    /\ rl_req = <<>>
    /\ forwarded = [ip \in ClientIps |-> <<>>]
    \* the other components, as constructed
    /\ entrypoint = "handler"
    /\ n_startup = 0
    /\ n_shutdown = 0
    /\ inflight = 0
    /\ inflight_zero = TRUE
    /\ shutting_down = FALSE
    /\ ls_pc = "idle"
    /\ ls_i = 0
    /\ waiter = "none"
    /\ timed_out = FALSE
    /\ host = "lifespan.startup"
    /\ events = <<>>
    /\ task = [k \in Tasks |-> [pc |-> "new", via |-> "", outcome |-> ""]]
    /\ at_shutdown = {}
    /\ middleware = <<>>
    /\ chain = <<>>
    /\ built_from = <<>>
    /\ mw_pc = "idle"
    /\ mw_depth = 0
    /\ mw_at = 0
    /\ mw_msgs = <<>>
    /\ seen_request = <<>>
    /\ seen_response = <<>>
    /\ app_built = FALSE
    /\ routes = <<>>
    /\ tree = EmptyTree
    /\ lookup = NoLookup
    /\ subrouters = <<>>
    /\ sub_routes = <<>>
    /\ tree_dirty = FALSE
    /\ include_pending = FALSE
    /\ csrf_req = NoCsrfRequest
    /\ csrf_pc = "idle"
    /\ csrf_token = ""
    /\ csrf_invoked = FALSE
    /\ csrf_resp = NoResponse
    /\ backend = "memory"
    /\ sessions = [k \in BackendIds |-> NoRecord]
    /\ be_result = NoCall
    /\ be_saved = [k \in BackendIds |-> NoRecord]
    /\ sm_clock = 0
    /\ sm_n = 0
    /\ sm_req = NoSessRequest
    /\ sm_sent = {}
    /\ sm_last = [k \in MintedIds |-> "none"]
    /\ rb_cfg = [sent |-> <<0>>, content_length |-> -1, max_body_size |-> 0]
    /\ rb_msgs = <<0>>
    /\ rb_body = NoBody
    /\ rb_consumed = FALSE
    /\ rb_pc = "idle"
    /\ rb_chunks = <<>>
    /\ rb_calls = 0
    /\ rb_ret = NoBody
    /\ rs_plan = [kind |-> "plain", chunks |-> 0, fail_at |-> -1, exc |-> "none"]
    /\ rs_pc = "idle"
    /\ rs_i = 0
    /\ rs_host = <<>>
    /\ to_timeout = 1
    /\ to_pc = "idle"
    /\ to_elapsed = 0
    /\ to_host = <<>>
    /\ to_deadline = FALSE
    /\ cors_cfg = CorsInit({<<"*">>}, FALSE, {})
    /\ cors_req = [method |-> "GET", origin |-> <<>>]
    /\ cors_pc = "idle"
    /\ cors_resp = NoCorsResponse
    /\ fs_files = [p \in FsPaths |-> NoFile]
    /\ fs_w = [w \in Workers |-> Idle]
    /\ fs_last = NoData
    /\ au_backend = [kind |-> "jwt", secret_key |-> SecretKey, algorithm |-> "HS256", token_prefix |-> "Bearer", verify |-> "none", exclude_paths |-> {}]
    /\ au_req = NoAuthRequest
    /\ rq_obj = "middleware"

SpecRateLimit ==
    /\ InitRateLimit
    /\ [][NextRateLimit]_vars

\* LifespanProtocolHandler.__init__; Lifespan.__init__ and the on_startup /
\* on_shutdown registrations made before the host adapter starts.  The host is
\* given either the LifespanProtocolHandler wrapping an app (as the tests do) or
\* the Thor application itself, whose __call__ builds the handler for the
\* lifespan scope only.
InitLifespan ==
    /\ entrypoint \in {"handler", "thor"}
    /\ n_startup \in 0..MaxHandlers
    /\ n_shutdown \in 0..MaxHandlers
    /\ inflight = 0
    /\ inflight_zero = TRUE
    /\ shutting_down = FALSE
    /\ ls_pc = "idle"
    /\ ls_i = 0
    /\ waiter = "none"
    /\ timed_out = FALSE
    /\ host = "lifespan.startup"
    /\ events = <<>>
    /\ task = [k \in Tasks |-> [pc |-> "new", via |-> "", outcome |-> ""]]
    /\ at_shutdown = {}
    \* the other components, as constructed
    /\ now = 0
    /\ max_requests = 1
    /\ window = 1
    /\ requests = [ip \in {} |-> <<>>]
    /\ rl_req = <<>>
    /\ forwarded = [ip \in ClientIps |-> <<>>]
    /\ middleware = <<>>
    /\ chain = <<>>
    /\ built_from = <<>>
    /\ mw_pc = "idle"
    /\ mw_depth = 0
    /\ mw_at = 0
    /\ mw_msgs = <<>>
    /\ seen_request = <<>>
    /\ seen_response = <<>>
    /\ app_built = FALSE
    /\ routes = <<>>
    /\ tree = EmptyTree
    /\ lookup = NoLookup
    /\ subrouters = <<>>
    /\ sub_routes = <<>>
    /\ tree_dirty = FALSE
    /\ include_pending = FALSE
    /\ csrf_req = NoCsrfRequest
    /\ csrf_pc = "idle"
    /\ csrf_token = ""
    /\ csrf_invoked = FALSE
    /\ csrf_resp = NoResponse
    /\ backend = "memory"
    /\ sessions = [k \in BackendIds |-> NoRecord]
    /\ be_result = NoCall
    /\ be_saved = [k \in BackendIds |-> NoRecord]
    /\ sm_clock = 0
    /\ sm_n = 0
    /\ sm_req = NoSessRequest
    /\ sm_sent = {}
    /\ sm_last = [k \in MintedIds |-> "none"]
    /\ rb_cfg = [sent |-> <<0>>, content_length |-> -1, max_body_size |-> 0]
    /\ rb_msgs = <<0>>
    /\ rb_body = NoBody
    /\ rb_consumed = FALSE
    /\ rb_pc = "idle"
    /\ rb_chunks = <<>>
    /\ rb_calls = 0
    /\ rb_ret = NoBody
    /\ rs_plan = [kind |-> "plain", chunks |-> 0, fail_at |-> -1, exc |-> "none"]
    /\ rs_pc = "idle"
    /\ rs_i = 0
    /\ rs_host = <<>>
    /\ to_timeout = 1
    /\ to_pc = "idle"
    /\ to_elapsed = 0
    /\ to_host = <<>>
    /\ to_deadline = FALSE
    /\ cors_cfg = CorsInit({<<"*">>}, FALSE, {})
    /\ cors_req = [method |-> "GET", origin |-> <<>>]
    /\ cors_pc = "idle"
    /\ cors_resp = NoCorsResponse
    /\ fs_files = [p \in FsPaths |-> NoFile]
    /\ fs_w = [w \in Workers |-> Idle]
    /\ fs_last = NoData
    /\ au_backend = [kind |-> "jwt", secret_key |-> SecretKey, algorithm |-> "HS256", token_prefix |-> "Bearer", verify |-> "none", exclude_paths |-> {}]
    /\ au_req = NoAuthRequest
    /\ rq_obj = "middleware"

SpecLifespan ==
    /\ InitLifespan
    /\ [][NextLifespan]_vars

\* The event loop runs a task whose awaited future is done, and fires the
\* timer of asyncio.wait_for once shutdown_timeout has passed.
SpecLifespanFair ==
    /\ SpecLifespan
    /\ WF_vars(DrainWake)
    /\ WF_vars(DrainTimeout)

InitChain ==
    /\ middleware = <<>>
    /\ chain = <<>>
    /\ built_from = <<>>
    /\ mw_pc = "idle"
    /\ mw_depth = 0
    /\ mw_at = 0
    /\ mw_msgs = <<>>
    /\ seen_request = <<>>
    /\ seen_response = <<>>
    /\ app_built = FALSE
    \* the other components, as constructed
    /\ now = 0
    /\ max_requests = 1
    /\ window = 1
    /\ requests = [ip \in {} |-> <<>>]
    /\ rl_req = <<>>
    /\ forwarded = [ip \in ClientIps |-> <<>>]
    /\ entrypoint = "handler"
    /\ n_startup = 0
    /\ n_shutdown = 0
    /\ inflight = 0
    /\ inflight_zero = TRUE
    /\ shutting_down = FALSE
    /\ ls_pc = "idle"
    /\ ls_i = 0
    /\ waiter = "none"
    /\ timed_out = FALSE
    /\ host = "lifespan.startup"
    /\ events = <<>>
    /\ task = [k \in Tasks |-> [pc |-> "new", via |-> "", outcome |-> ""]]
    /\ at_shutdown = {}
    /\ routes = <<>>
    /\ tree = EmptyTree
    /\ lookup = NoLookup
    /\ subrouters = <<>>
    /\ sub_routes = <<>>
    /\ tree_dirty = FALSE
    /\ include_pending = FALSE
    /\ csrf_req = NoCsrfRequest
    /\ csrf_pc = "idle"
    /\ csrf_token = ""
    /\ csrf_invoked = FALSE
    /\ csrf_resp = NoResponse
    /\ backend = "memory"
    /\ sessions = [k \in BackendIds |-> NoRecord]
    /\ be_result = NoCall
    /\ be_saved = [k \in BackendIds |-> NoRecord]
    /\ sm_clock = 0
    /\ sm_n = 0
    /\ sm_req = NoSessRequest
    /\ sm_sent = {}
    /\ sm_last = [k \in MintedIds |-> "none"]
    /\ rb_cfg = [sent |-> <<0>>, content_length |-> -1, max_body_size |-> 0]
    /\ rb_msgs = <<0>>
    /\ rb_body = NoBody
    /\ rb_consumed = FALSE
    /\ rb_pc = "idle"
    /\ rb_chunks = <<>>
    /\ rb_calls = 0
    /\ rb_ret = NoBody
    /\ rs_plan = [kind |-> "plain", chunks |-> 0, fail_at |-> -1, exc |-> "none"]
    /\ rs_pc = "idle"
    /\ rs_i = 0
    /\ rs_host = <<>>
    /\ to_timeout = 1
    /\ to_pc = "idle"
    /\ to_elapsed = 0
    /\ to_host = <<>>
    /\ to_deadline = FALSE
    /\ cors_cfg = CorsInit({<<"*">>}, FALSE, {})
    /\ cors_req = [method |-> "GET", origin |-> <<>>]
    /\ cors_pc = "idle"
    /\ cors_resp = NoCorsResponse
    /\ fs_files = [p \in FsPaths |-> NoFile]
    /\ fs_w = [w \in Workers |-> Idle]
    /\ fs_last = NoData
    /\ au_backend = [kind |-> "jwt", secret_key |-> SecretKey, algorithm |-> "HS256", token_prefix |-> "Bearer", verify |-> "none", exclude_paths |-> {}]
    /\ au_req = NoAuthRequest
    /\ rq_obj = "middleware"

SpecChain ==
    /\ InitChain
    /\ [][NextChain]_vars

\* Router.__init__
InitRouter ==
    /\ routes = <<>>
    /\ tree = EmptyTree
    /\ lookup = NoLookup
    /\ subrouters = <<>>
    /\ sub_routes = <<>>
    /\ tree_dirty = FALSE
    /\ include_pending = FALSE
    \* the other components, as constructed
    /\ now = 0
    /\ max_requests = 1
    /\ window = 1
    /\ requests = [ip \in {} |-> <<>>]
    /\ rl_req = <<>>
    /\ forwarded = [ip \in ClientIps |-> <<>>]
    /\ entrypoint = "handler"
    /\ n_startup = 0
    /\ n_shutdown = 0
    /\ inflight = 0
    /\ inflight_zero = TRUE
    /\ shutting_down = FALSE
    /\ ls_pc = "idle"
    /\ ls_i = 0
    /\ waiter = "none"
    /\ timed_out = FALSE
    /\ host = "lifespan.startup"
    /\ events = <<>>
    /\ task = [k \in Tasks |-> [pc |-> "new", via |-> "", outcome |-> ""]]
    /\ at_shutdown = {}
    /\ middleware = <<>>
    /\ chain = <<>>
    /\ built_from = <<>>
    /\ mw_pc = "idle"
    /\ mw_depth = 0
    /\ mw_at = 0
    /\ mw_msgs = <<>>
    /\ seen_request = <<>>
    /\ seen_response = <<>>
    /\ app_built = FALSE
    /\ csrf_req = NoCsrfRequest
    /\ csrf_pc = "idle"
    /\ csrf_token = ""
    /\ csrf_invoked = FALSE
    /\ csrf_resp = NoResponse
    /\ backend = "memory"
    /\ sessions = [k \in BackendIds |-> NoRecord]
    /\ be_result = NoCall
    /\ be_saved = [k \in BackendIds |-> NoRecord]
    /\ sm_clock = 0
    /\ sm_n = 0
    /\ sm_req = NoSessRequest
    /\ sm_sent = {}
    /\ sm_last = [k \in MintedIds |-> "none"]
    /\ rb_cfg = [sent |-> <<0>>, content_length |-> -1, max_body_size |-> 0]
    /\ rb_msgs = <<0>>
    /\ rb_body = NoBody
    /\ rb_consumed = FALSE
    /\ rb_pc = "idle"
    /\ rb_chunks = <<>>
    /\ rb_calls = 0
    /\ rb_ret = NoBody
    /\ rs_plan = [kind |-> "plain", chunks |-> 0, fail_at |-> -1, exc |-> "none"]
    /\ rs_pc = "idle"
    /\ rs_i = 0
    /\ rs_host = <<>>
    /\ to_timeout = 1
    /\ to_pc = "idle"
    /\ to_elapsed = 0
    /\ to_host = <<>>
    /\ to_deadline = FALSE
    /\ cors_cfg = CorsInit({<<"*">>}, FALSE, {})
    /\ cors_req = [method |-> "GET", origin |-> <<>>]
    /\ cors_pc = "idle"
    /\ cors_resp = NoCorsResponse
    /\ fs_files = [p \in FsPaths |-> NoFile]
    /\ fs_w = [w \in Workers |-> Idle]
    /\ fs_last = NoData
    /\ au_backend = [kind |-> "jwt", secret_key |-> SecretKey, algorithm |-> "HS256", token_prefix |-> "Bearer", verify |-> "none", exclude_paths |-> {}]
    /\ au_req = NoAuthRequest
    /\ rq_obj = "middleware"

SpecRouter ==
    /\ InitRouter
    /\ [][NextRouter]_vars

SpecSubRouter ==
    /\ InitRouter
    /\ [][NextSubRouter]_vars

\* CSRFMiddleware.__init__
InitCsrf ==
    /\ csrf_req = NoCsrfRequest
    /\ csrf_pc = "idle"
    /\ csrf_token = ""
    /\ csrf_invoked = FALSE
    /\ csrf_resp = NoResponse
    \* the other components, as constructed
    /\ routes = <<>>
    /\ tree = EmptyTree
    /\ lookup = NoLookup
    /\ subrouters = <<>>
    /\ sub_routes = <<>>
    /\ tree_dirty = FALSE
    /\ include_pending = FALSE
    /\ now = 0
    /\ max_requests = 1
    /\ window = 1
    /\ requests = [ip \in {} |-> <<>>]
    /\ rl_req = <<>>
    /\ forwarded = [ip \in ClientIps |-> <<>>]
    /\ entrypoint = "handler"
    /\ n_startup = 0
    /\ n_shutdown = 0
    /\ inflight = 0
    /\ inflight_zero = TRUE
    /\ shutting_down = FALSE
    /\ ls_pc = "idle"
    /\ ls_i = 0
    /\ waiter = "none"
    /\ timed_out = FALSE
    /\ host = "lifespan.startup"
    /\ events = <<>>
    /\ task = [k \in Tasks |-> [pc |-> "new", via |-> "", outcome |-> ""]]
    /\ at_shutdown = {}
    /\ middleware = <<>>
    /\ chain = <<>>
    /\ built_from = <<>>
    /\ mw_pc = "idle"
    /\ mw_depth = 0
    /\ mw_at = 0
    /\ mw_msgs = <<>>
    /\ seen_request = <<>>
    /\ seen_response = <<>>
    /\ app_built = FALSE
    /\ backend = "memory"
    /\ sessions = [k \in BackendIds |-> NoRecord]
    /\ be_result = NoCall
    /\ be_saved = [k \in BackendIds |-> NoRecord]
    /\ sm_clock = 0
    /\ sm_n = 0
    /\ sm_req = NoSessRequest
    /\ sm_sent = {}
    /\ sm_last = [k \in MintedIds |-> "none"]
    /\ rb_cfg = [sent |-> <<0>>, content_length |-> -1, max_body_size |-> 0]
    /\ rb_msgs = <<0>>
    /\ rb_body = NoBody
    /\ rb_consumed = FALSE
    /\ rb_pc = "idle"
    /\ rb_chunks = <<>>
    /\ rb_calls = 0
    /\ rb_ret = NoBody
    /\ rs_plan = [kind |-> "plain", chunks |-> 0, fail_at |-> -1, exc |-> "none"]
    /\ rs_pc = "idle"
    /\ rs_i = 0
    /\ rs_host = <<>>
    /\ to_timeout = 1
    /\ to_pc = "idle"
    /\ to_elapsed = 0
    /\ to_host = <<>>
    /\ to_deadline = FALSE
    /\ cors_cfg = CorsInit({<<"*">>}, FALSE, {})
    /\ cors_req = [method |-> "GET", origin |-> <<>>]
    /\ cors_pc = "idle"
    /\ cors_resp = NoCorsResponse
    /\ fs_files = [p \in FsPaths |-> NoFile]
    /\ fs_w = [w \in Workers |-> Idle]
    /\ fs_last = NoData
    /\ au_backend = [kind |-> "jwt", secret_key |-> SecretKey, algorithm |-> "HS256", token_prefix |-> "Bearer", verify |-> "none", exclude_paths |-> {}]
    /\ au_req = NoAuthRequest
    /\ rq_obj = "middleware"

SpecCsrf ==
    /\ InitCsrf
    /\ [][NextCsrf]_vars

\* the session backends, called through their API
InitBackend ==
    /\ backend \in {"memory", "file"}
    /\ sessions = [k \in BackendIds |-> NoRecord]
    /\ be_result = NoCall
    /\ be_saved = [k \in BackendIds |-> NoRecord]
    \* the other components, as constructed
    /\ routes = <<>>
    /\ tree = EmptyTree
    /\ lookup = NoLookup
    /\ subrouters = <<>>
    /\ sub_routes = <<>>
    /\ tree_dirty = FALSE
    /\ include_pending = FALSE
    /\ now = 0
    /\ max_requests = 1
    /\ window = 1
    /\ requests = [ip \in {} |-> <<>>]
    /\ rl_req = <<>>
    /\ forwarded = [ip \in ClientIps |-> <<>>]
    /\ entrypoint = "handler"
    /\ n_startup = 0
    /\ n_shutdown = 0
    /\ inflight = 0
    /\ inflight_zero = TRUE
    /\ shutting_down = FALSE
    /\ ls_pc = "idle"
    /\ ls_i = 0
    /\ waiter = "none"
    /\ timed_out = FALSE
    /\ host = "lifespan.startup"
    /\ events = <<>>
    /\ task = [k \in Tasks |-> [pc |-> "new", via |-> "", outcome |-> ""]]
    /\ at_shutdown = {}
    /\ middleware = <<>>
    /\ chain = <<>>
    /\ built_from = <<>>
    /\ mw_pc = "idle"
    /\ mw_depth = 0
    /\ mw_at = 0
    /\ mw_msgs = <<>>
    /\ seen_request = <<>>
    /\ seen_response = <<>>
    /\ app_built = FALSE
    /\ csrf_req = NoCsrfRequest
    /\ csrf_pc = "idle"
    /\ csrf_token = ""
    /\ csrf_invoked = FALSE
    /\ csrf_resp = NoResponse
    /\ sm_clock = 0
    /\ sm_n = 0
    /\ sm_req = NoSessRequest
    /\ sm_sent = {}
    /\ sm_last = [k \in MintedIds |-> "none"]
    /\ rb_cfg = [sent |-> <<0>>, content_length |-> -1, max_body_size |-> 0]
    /\ rb_msgs = <<0>>
    /\ rb_body = NoBody
    /\ rb_consumed = FALSE
    /\ rb_pc = "idle"
    /\ rb_chunks = <<>>
    /\ rb_calls = 0
    /\ rb_ret = NoBody
    /\ rs_plan = [kind |-> "plain", chunks |-> 0, fail_at |-> -1, exc |-> "none"]
    /\ rs_pc = "idle"
    /\ rs_i = 0
    /\ rs_host = <<>>
    /\ to_timeout = 1
    /\ to_pc = "idle"
    /\ to_elapsed = 0
    /\ to_host = <<>>
    /\ to_deadline = FALSE
    /\ cors_cfg = CorsInit({<<"*">>}, FALSE, {})
    /\ cors_req = [method |-> "GET", origin |-> <<>>]
    /\ cors_pc = "idle"
    /\ cors_resp = NoCorsResponse
    /\ fs_files = [p \in FsPaths |-> NoFile]
    /\ fs_w = [w \in Workers |-> Idle]
    /\ fs_last = NoData
    /\ au_backend = [kind |-> "jwt", secret_key |-> SecretKey, algorithm |-> "HS256", token_prefix |-> "Bearer", verify |-> "none", exclude_paths |-> {}]
    /\ au_req = NoAuthRequest
    /\ rq_obj = "middleware"

SpecBackend ==
    /\ InitBackend
    /\ [][NextBackend]_vars

\* the session middleware over either backend, one request at a time
InitSession ==
    /\ backend \in {"memory", "file"}
    /\ sessions = [k \in BackendIds |-> NoRecord]
    /\ sm_clock = 0
    /\ sm_n = 0
    /\ sm_req = NoSessRequest
    /\ sm_sent = {}
    /\ sm_last = [k \in MintedIds |-> "none"]
    \* the other components, as constructed
    /\ routes = <<>>
    /\ tree = EmptyTree
    /\ lookup = NoLookup
    /\ subrouters = <<>>
    /\ sub_routes = <<>>
    /\ tree_dirty = FALSE
    /\ include_pending = FALSE
    /\ now = 0
    /\ max_requests = 1
    /\ window = 1
    /\ requests = [ip \in {} |-> <<>>]
    /\ rl_req = <<>>
    /\ forwarded = [ip \in ClientIps |-> <<>>]
    /\ entrypoint = "handler"
    /\ n_startup = 0
    /\ n_shutdown = 0
    /\ inflight = 0
    /\ inflight_zero = TRUE
    /\ shutting_down = FALSE
    /\ ls_pc = "idle"
    /\ ls_i = 0
    /\ waiter = "none"
    /\ timed_out = FALSE
    /\ host = "lifespan.startup"
    /\ events = <<>>
    /\ task = [k \in Tasks |-> [pc |-> "new", via |-> "", outcome |-> ""]]
    /\ at_shutdown = {}
    /\ middleware = <<>>
    /\ chain = <<>>
    /\ built_from = <<>>
    /\ mw_pc = "idle"
    /\ mw_depth = 0
    /\ mw_at = 0
    /\ mw_msgs = <<>>
    /\ seen_request = <<>>
    /\ seen_response = <<>>
    /\ app_built = FALSE
    /\ csrf_req = NoCsrfRequest
    /\ csrf_pc = "idle"
    /\ csrf_token = ""
    /\ csrf_invoked = FALSE
    /\ csrf_resp = NoResponse
    /\ be_result = NoCall
    /\ be_saved = [k \in BackendIds |-> NoRecord]
    /\ rb_cfg = [sent |-> <<0>>, content_length |-> -1, max_body_size |-> 0]
    /\ rb_msgs = <<0>>
    /\ rb_body = NoBody
    /\ rb_consumed = FALSE
    /\ rb_pc = "idle"
    /\ rb_chunks = <<>>
    /\ rb_calls = 0
    /\ rb_ret = NoBody
    /\ rs_plan = [kind |-> "plain", chunks |-> 0, fail_at |-> -1, exc |-> "none"]
    /\ rs_pc = "idle"
    /\ rs_i = 0
    /\ rs_host = <<>>
    /\ to_timeout = 1
    /\ to_pc = "idle"
    /\ to_elapsed = 0
    /\ to_host = <<>>
    /\ to_deadline = FALSE
    /\ cors_cfg = CorsInit({<<"*">>}, FALSE, {})
    /\ cors_req = [method |-> "GET", origin |-> <<>>]
    /\ cors_pc = "idle"
    /\ cors_resp = NoCorsResponse
    /\ fs_files = [p \in FsPaths |-> NoFile]
    /\ fs_w = [w \in Workers |-> Idle]
    /\ fs_last = NoData
    /\ au_backend = [kind |-> "jwt", secret_key |-> SecretKey, algorithm |-> "HS256", token_prefix |-> "Bearer", verify |-> "none", exclude_paths |-> {}]
    /\ au_req = NoAuthRequest
    /\ rq_obj = "middleware"

SpecSession ==
    /\ InitSession
    /\ [][NextSession]_vars

\* one request and the body() calls made on it
InitBody ==
    /\ rb_cfg \in {r \in BodyRequests : r.content_length \in {-1, Total(r.sent)}}
    /\ rb_msgs = rb_cfg.sent
    /\ rb_body = NoBody
    /\ rb_consumed = FALSE
    /\ rb_pc = "idle"
    /\ rb_chunks = <<>>
    /\ rb_calls = 0
    /\ rb_ret = NoBody
    \* the other components, as constructed
    /\ routes = <<>>
    /\ tree = EmptyTree
    /\ lookup = NoLookup
    /\ subrouters = <<>>
    /\ sub_routes = <<>>
    /\ tree_dirty = FALSE
    /\ include_pending = FALSE
    /\ now = 0
    /\ max_requests = 1
    /\ window = 1
    /\ requests = [ip \in {} |-> <<>>]
    /\ rl_req = <<>>
    /\ forwarded = [ip \in ClientIps |-> <<>>]
    /\ entrypoint = "handler"
    /\ n_startup = 0
    /\ n_shutdown = 0
    /\ inflight = 0
    /\ inflight_zero = TRUE
    /\ shutting_down = FALSE
    /\ ls_pc = "idle"
    /\ ls_i = 0
    /\ waiter = "none"
    /\ timed_out = FALSE
    /\ host = "lifespan.startup"
    /\ events = <<>>
    /\ task = [k \in Tasks |-> [pc |-> "new", via |-> "", outcome |-> ""]]
    /\ at_shutdown = {}
    /\ middleware = <<>>
    /\ chain = <<>>
    /\ built_from = <<>>
    /\ mw_pc = "idle"
    /\ mw_depth = 0
    /\ mw_at = 0
    /\ mw_msgs = <<>>
    /\ seen_request = <<>>
    /\ seen_response = <<>>
    /\ app_built = FALSE
    /\ csrf_req = NoCsrfRequest
    /\ csrf_pc = "idle"
    /\ csrf_token = ""
    /\ csrf_invoked = FALSE
    /\ csrf_resp = NoResponse
    /\ backend = "memory"
    /\ sessions = [k \in BackendIds |-> NoRecord]
    /\ be_result = NoCall
    /\ be_saved = [k \in BackendIds |-> NoRecord]
    /\ sm_clock = 0
    /\ sm_n = 0
    /\ sm_req = NoSessRequest
    /\ sm_sent = {}
    /\ sm_last = [k \in MintedIds |-> "none"]
    /\ rs_plan = [kind |-> "plain", chunks |-> 0, fail_at |-> -1, exc |-> "none"]
    /\ rs_pc = "idle"
    /\ rs_i = 0
    /\ rs_host = <<>>
    /\ to_timeout = 1
    /\ to_pc = "idle"
    /\ to_elapsed = 0
    /\ to_host = <<>>
    /\ to_deadline = FALSE
    /\ cors_cfg = CorsInit({<<"*">>}, FALSE, {})
    /\ cors_req = [method |-> "GET", origin |-> <<>>]
    /\ cors_pc = "idle"
    /\ cors_resp = NoCorsResponse
    /\ fs_files = [p \in FsPaths |-> NoFile]
    /\ fs_w = [w \in Workers |-> Idle]
    /\ fs_last = NoData
    /\ au_backend = [kind |-> "jwt", secret_key |-> SecretKey, algorithm |-> "HS256", token_prefix |-> "Bearer", verify |-> "none", exclude_paths |-> {}]
    /\ au_req = NoAuthRequest
    /\ rq_obj = "middleware"

SpecBody ==
    /\ InitBody
    /\ [][NextBody]_vars

\* the messages one request after another sends to the host
InitResponse ==
    /\ rs_plan = [kind |-> "plain", chunks |-> 0, fail_at |-> -1, exc |-> "none"]
    /\ rs_pc = "idle"
    /\ rs_i = 0
    /\ rs_host = <<>>
    \* the other components, as constructed
    /\ routes = <<>>
    /\ tree = EmptyTree
    /\ lookup = NoLookup
    /\ subrouters = <<>>
    /\ sub_routes = <<>>
    /\ tree_dirty = FALSE
    /\ include_pending = FALSE
    /\ now = 0
    /\ max_requests = 1
    /\ window = 1
    /\ requests = [ip \in {} |-> <<>>]
    /\ rl_req = <<>>
    /\ forwarded = [ip \in ClientIps |-> <<>>]
    /\ entrypoint = "handler"
    /\ n_startup = 0
    /\ n_shutdown = 0
    /\ inflight = 0
    /\ inflight_zero = TRUE
    /\ shutting_down = FALSE
    /\ ls_pc = "idle"
    /\ ls_i = 0
    /\ waiter = "none"
    /\ timed_out = FALSE
    /\ host = "lifespan.startup"
    /\ events = <<>>
    /\ task = [k \in Tasks |-> [pc |-> "new", via |-> "", outcome |-> ""]]
    /\ at_shutdown = {}
    /\ middleware = <<>>
    /\ chain = <<>>
    /\ built_from = <<>>
    /\ mw_pc = "idle"
    /\ mw_depth = 0
    /\ mw_at = 0
    /\ mw_msgs = <<>>
    /\ seen_request = <<>>
    /\ seen_response = <<>>
    /\ app_built = FALSE
    /\ csrf_req = NoCsrfRequest
    /\ csrf_pc = "idle"
    /\ csrf_token = ""
    /\ csrf_invoked = FALSE
    /\ csrf_resp = NoResponse
    /\ backend = "memory"
    /\ sessions = [k \in BackendIds |-> NoRecord]
    /\ be_result = NoCall
    /\ be_saved = [k \in BackendIds |-> NoRecord]
    /\ sm_clock = 0
    /\ sm_n = 0
    /\ sm_req = NoSessRequest
    /\ sm_sent = {}
    /\ sm_last = [k \in MintedIds |-> "none"]
    /\ rb_cfg = [sent |-> <<0>>, content_length |-> -1, max_body_size |-> 0]
    /\ rb_msgs = <<0>>
    /\ rb_body = NoBody
    /\ rb_consumed = FALSE
    /\ rb_pc = "idle"
    /\ rb_chunks = <<>>
    /\ rb_calls = 0
    /\ rb_ret = NoBody
    /\ to_timeout = 1
    /\ to_pc = "idle"
    /\ to_elapsed = 0
    /\ to_host = <<>>
    /\ to_deadline = FALSE
    /\ cors_cfg = CorsInit({<<"*">>}, FALSE, {})
    /\ cors_req = [method |-> "GET", origin |-> <<>>]
    /\ cors_pc = "idle"
    /\ cors_resp = NoCorsResponse
    /\ fs_files = [p \in FsPaths |-> NoFile]
    /\ fs_w = [w \in Workers |-> Idle]
    /\ fs_last = NoData
    /\ au_backend = [kind |-> "jwt", secret_key |-> SecretKey, algorithm |-> "HS256", token_prefix |-> "Bearer", verify |-> "none", exclude_paths |-> {}]
    /\ au_req = NoAuthRequest
    /\ rq_obj = "middleware"

SpecResponse ==
    /\ InitResponse
    /\ [][NextResponse]_vars

\* the middleware chain of a Thor application: the error handler is registered at construction
InitThor ==
    /\ middleware = <<"ErrorHandlerMiddleware">>
    /\ chain = <<>>
    /\ built_from = <<>>
    /\ mw_pc = "idle"
    /\ mw_depth = 0
    /\ mw_at = 0
    /\ mw_msgs = <<>>
    /\ seen_request = <<>>
    /\ seen_response = <<>>
    /\ app_built = FALSE
    \* the other components, as constructed
    /\ routes = <<>>
    /\ tree = EmptyTree
    /\ lookup = NoLookup
    /\ subrouters = <<>>
    /\ sub_routes = <<>>
    /\ tree_dirty = FALSE
    /\ include_pending = FALSE
    /\ now = 0
    /\ max_requests = 1
    /\ window = 1
    /\ requests = [ip \in {} |-> <<>>]
    /\ rl_req = <<>>
    /\ forwarded = [ip \in ClientIps |-> <<>>]
    /\ entrypoint = "handler"
    /\ n_startup = 0
    /\ n_shutdown = 0
    /\ inflight = 0
    /\ inflight_zero = TRUE
    /\ shutting_down = FALSE
    /\ ls_pc = "idle"
    /\ ls_i = 0
    /\ waiter = "none"
    /\ timed_out = FALSE
    /\ host = "lifespan.startup"
    /\ events = <<>>
    /\ task = [k \in Tasks |-> [pc |-> "new", via |-> "", outcome |-> ""]]
    /\ at_shutdown = {}
    /\ csrf_req = NoCsrfRequest
    /\ csrf_pc = "idle"
    /\ csrf_token = ""
    /\ csrf_invoked = FALSE
    /\ csrf_resp = NoResponse
    /\ backend = "memory"
    /\ sessions = [k \in BackendIds |-> NoRecord]
    /\ be_result = NoCall
    /\ be_saved = [k \in BackendIds |-> NoRecord]
    /\ sm_clock = 0
    /\ sm_n = 0
    /\ sm_req = NoSessRequest
    /\ sm_sent = {}
    /\ sm_last = [k \in MintedIds |-> "none"]
    /\ rb_cfg = [sent |-> <<0>>, content_length |-> -1, max_body_size |-> 0]
    /\ rb_msgs = <<0>>
    /\ rb_body = NoBody
    /\ rb_consumed = FALSE
    /\ rb_pc = "idle"
    /\ rb_chunks = <<>>
    /\ rb_calls = 0
    /\ rb_ret = NoBody
    /\ rs_plan = [kind |-> "plain", chunks |-> 0, fail_at |-> -1, exc |-> "none"]
    /\ rs_pc = "idle"
    /\ rs_i = 0
    /\ rs_host = <<>>
    /\ to_timeout = 1
    /\ to_pc = "idle"
    /\ to_elapsed = 0
    /\ to_host = <<>>
    /\ to_deadline = FALSE
    /\ cors_cfg = CorsInit({<<"*">>}, FALSE, {})
    /\ cors_req = [method |-> "GET", origin |-> <<>>]
    /\ cors_pc = "idle"
    /\ cors_resp = NoCorsResponse
    /\ fs_files = [p \in FsPaths |-> NoFile]
    /\ fs_w = [w \in Workers |-> Idle]
    /\ fs_last = NoData
    /\ au_backend = [kind |-> "jwt", secret_key |-> SecretKey, algorithm |-> "HS256", token_prefix |-> "Bearer", verify |-> "none", exclude_paths |-> {}]
    /\ au_req = NoAuthRequest
    /\ rq_obj = "middleware"

SpecThor ==
    /\ InitThor
    /\ [][NextThor]_vars

\* TimeoutMiddleware under the error handler, one request at a time
InitTimeout ==
    /\ to_timeout \in 1..MaxTimeout
    /\ to_pc = "idle"
    /\ to_elapsed = 0
    /\ to_host = <<>>
    /\ to_deadline = FALSE
    \* the other components, as constructed
    /\ routes = <<>>
    /\ tree = EmptyTree
    /\ lookup = NoLookup
    /\ subrouters = <<>>
    /\ sub_routes = <<>>
    /\ tree_dirty = FALSE
    /\ include_pending = FALSE
    /\ now = 0
    /\ max_requests = 1
    /\ window = 1
    /\ requests = [ip \in {} |-> <<>>]
    /\ rl_req = <<>>
    /\ forwarded = [ip \in ClientIps |-> <<>>]
    /\ entrypoint = "handler"
    /\ n_startup = 0
    /\ n_shutdown = 0
    /\ inflight = 0
    /\ inflight_zero = TRUE
    /\ shutting_down = FALSE
    /\ ls_pc = "idle"
    /\ ls_i = 0
    /\ waiter = "none"
    /\ timed_out = FALSE
    /\ host = "lifespan.startup"
    /\ events = <<>>
    /\ task = [k \in Tasks |-> [pc |-> "new", via |-> "", outcome |-> ""]]
    /\ at_shutdown = {}
    /\ middleware = <<>>
    /\ chain = <<>>
    /\ built_from = <<>>
    /\ mw_pc = "idle"
    /\ mw_depth = 0
    /\ mw_at = 0
    /\ mw_msgs = <<>>
    /\ seen_request = <<>>
    /\ seen_response = <<>>
    /\ app_built = FALSE
    /\ csrf_req = NoCsrfRequest
    /\ csrf_pc = "idle"
    /\ csrf_token = ""
    /\ csrf_invoked = FALSE
    /\ csrf_resp = NoResponse
    /\ backend = "memory"
    /\ sessions = [k \in BackendIds |-> NoRecord]
    /\ be_result = NoCall
    /\ be_saved = [k \in BackendIds |-> NoRecord]
    /\ sm_clock = 0
    /\ sm_n = 0
    /\ sm_req = NoSessRequest
    /\ sm_sent = {}
    /\ sm_last = [k \in MintedIds |-> "none"]
    /\ rb_cfg = [sent |-> <<0>>, content_length |-> -1, max_body_size |-> 0]
    /\ rb_msgs = <<0>>
    /\ rb_body = NoBody
    /\ rb_consumed = FALSE
    /\ rb_pc = "idle"
    /\ rb_chunks = <<>>
    /\ rb_calls = 0
    /\ rb_ret = NoBody
    /\ rs_plan = [kind |-> "plain", chunks |-> 0, fail_at |-> -1, exc |-> "none"]
    /\ rs_pc = "idle"
    /\ rs_i = 0
    /\ rs_host = <<>>
    /\ cors_cfg = CorsInit({<<"*">>}, FALSE, {})
    /\ cors_req = [method |-> "GET", origin |-> <<>>]
    /\ cors_pc = "idle"
    /\ cors_resp = NoCorsResponse
    /\ fs_files = [p \in FsPaths |-> NoFile]
    /\ fs_w = [w \in Workers |-> Idle]
    /\ fs_last = NoData
    /\ au_backend = [kind |-> "jwt", secret_key |-> SecretKey, algorithm |-> "HS256", token_prefix |-> "Bearer", verify |-> "none", exclude_paths |-> {}]
    /\ au_req = NoAuthRequest
    /\ rq_obj = "middleware"

SpecTimeout ==
    /\ InitTimeout
    /\ [][NextTimeout]_vars

\* CORSMiddleware, any valid configuration, one request at a time
InitCors ==
    /\ cors_cfg \in {cfg \in {CorsInit(allow_origins, allow_credentials, regex) :
                                 allow_origins \in SUBSET AllowOriginEntries,
                                 allow_credentials \in BOOLEAN,
                                 regex \in {{}, {<<"https://r.com">>}}} : cfg.valid}
    /\ cors_req = [method |-> "GET", origin |-> <<>>]
    /\ cors_pc = "idle"
    /\ cors_resp = NoCorsResponse
    \* the other components, as constructed
    /\ routes = <<>>
    /\ tree = EmptyTree
    /\ lookup = NoLookup
    /\ subrouters = <<>>
    /\ sub_routes = <<>>
    /\ tree_dirty = FALSE
    /\ include_pending = FALSE
    /\ now = 0
    /\ max_requests = 1
    /\ window = 1
    /\ requests = [ip \in {} |-> <<>>]
    /\ rl_req = <<>>
    /\ forwarded = [ip \in ClientIps |-> <<>>]
    /\ entrypoint = "handler"
    /\ n_startup = 0
    /\ n_shutdown = 0
    /\ inflight = 0
    /\ inflight_zero = TRUE
    /\ shutting_down = FALSE
    /\ ls_pc = "idle"
    /\ ls_i = 0
    /\ waiter = "none"
    /\ timed_out = FALSE
    /\ host = "lifespan.startup"
    /\ events = <<>>
    /\ task = [k \in Tasks |-> [pc |-> "new", via |-> "", outcome |-> ""]]
    /\ at_shutdown = {}
    /\ middleware = <<>>
    /\ chain = <<>>
    /\ built_from = <<>>
    /\ mw_pc = "idle"
    /\ mw_depth = 0
    /\ mw_at = 0
    /\ mw_msgs = <<>>
    /\ seen_request = <<>>
    /\ seen_response = <<>>
    /\ app_built = FALSE
    /\ csrf_req = NoCsrfRequest
    /\ csrf_pc = "idle"
    /\ csrf_token = ""
    /\ csrf_invoked = FALSE
    /\ csrf_resp = NoResponse
    /\ backend = "memory"
    /\ sessions = [k \in BackendIds |-> NoRecord]
    /\ be_result = NoCall
    /\ be_saved = [k \in BackendIds |-> NoRecord]
    /\ sm_clock = 0
    /\ sm_n = 0
    /\ sm_req = NoSessRequest
    /\ sm_sent = {}
    /\ sm_last = [k \in MintedIds |-> "none"]
    /\ rb_cfg = [sent |-> <<0>>, content_length |-> -1, max_body_size |-> 0]
    /\ rb_msgs = <<0>>
    /\ rb_body = NoBody
    /\ rb_consumed = FALSE
    /\ rb_pc = "idle"
    /\ rb_chunks = <<>>
    /\ rb_calls = 0
    /\ rb_ret = NoBody
    /\ rs_plan = [kind |-> "plain", chunks |-> 0, fail_at |-> -1, exc |-> "none"]
    /\ rs_pc = "idle"
    /\ rs_i = 0
    /\ rs_host = <<>>
    /\ to_timeout = 1
    /\ to_pc = "idle"
    /\ to_elapsed = 0
    /\ to_host = <<>>
    /\ to_deadline = FALSE
    /\ fs_files = [p \in FsPaths |-> NoFile]
    /\ fs_w = [w \in Workers |-> Idle]
    /\ fs_last = NoData
    /\ au_backend = [kind |-> "jwt", secret_key |-> SecretKey, algorithm |-> "HS256", token_prefix |-> "Bearer", verify |-> "none", exclude_paths |-> {}]
    /\ au_req = NoAuthRequest
    /\ rq_obj = "middleware"

SpecCors ==
    /\ InitCors
    /\ [][NextCors]_vars

\* FileSessionBackend: workers sharing one directory and one session id
InitFiles ==
    /\ \E stored \in {NoFile, [data |-> "r0", accessed_at |-> "caller", complete |-> TRUE, exists |-> TRUE]} :
           /\ fs_files = [p \in FsPaths |-> IF p = TargetPath THEN stored ELSE NoFile]
           /\ fs_last = stored.data
    /\ fs_w = [w \in Workers |-> Idle]
    \* the other components, as constructed
    /\ routes = <<>>
    /\ tree = EmptyTree
    /\ lookup = NoLookup
    /\ subrouters = <<>>
    /\ sub_routes = <<>>
    /\ tree_dirty = FALSE
    /\ include_pending = FALSE
    /\ now = 0
    /\ max_requests = 1
    /\ window = 1
    /\ requests = [ip \in {} |-> <<>>]
    /\ rl_req = <<>>
    /\ forwarded = [ip \in ClientIps |-> <<>>]
    /\ entrypoint = "handler"
    /\ n_startup = 0
    /\ n_shutdown = 0
    /\ inflight = 0
    /\ inflight_zero = TRUE
    /\ shutting_down = FALSE
    /\ ls_pc = "idle"
    /\ ls_i = 0
    /\ waiter = "none"
    /\ timed_out = FALSE
    /\ host = "lifespan.startup"
    /\ events = <<>>
    /\ task = [k \in Tasks |-> [pc |-> "new", via |-> "", outcome |-> ""]]
    /\ at_shutdown = {}
    /\ middleware = <<>>
    /\ chain = <<>>
    /\ built_from = <<>>
    /\ mw_pc = "idle"
    /\ mw_depth = 0
    /\ mw_at = 0
    /\ mw_msgs = <<>>
    /\ seen_request = <<>>
    /\ seen_response = <<>>
    /\ app_built = FALSE
    /\ csrf_req = NoCsrfRequest
    /\ csrf_pc = "idle"
    /\ csrf_token = ""
    /\ csrf_invoked = FALSE
    /\ csrf_resp = NoResponse
    /\ backend = "memory"
    /\ sessions = [k \in BackendIds |-> NoRecord]
    /\ be_result = NoCall
    /\ be_saved = [k \in BackendIds |-> NoRecord]
    /\ sm_clock = 0
    /\ sm_n = 0
    /\ sm_req = NoSessRequest
    /\ sm_sent = {}
    /\ sm_last = [k \in MintedIds |-> "none"]
    /\ rb_cfg = [sent |-> <<0>>, content_length |-> -1, max_body_size |-> 0]
    /\ rb_msgs = <<0>>
    /\ rb_body = NoBody
    /\ rb_consumed = FALSE
    /\ rb_pc = "idle"
    /\ rb_chunks = <<>>
    /\ rb_calls = 0
    /\ rb_ret = NoBody
    /\ rs_plan = [kind |-> "plain", chunks |-> 0, fail_at |-> -1, exc |-> "none"]
    /\ rs_pc = "idle"
    /\ rs_i = 0
    /\ rs_host = <<>>
    /\ to_timeout = 1
    /\ to_pc = "idle"
    /\ to_elapsed = 0
    /\ to_host = <<>>
    /\ to_deadline = FALSE
    /\ cors_cfg = CorsInit({<<"*">>}, FALSE, {})
    /\ cors_req = [method |-> "GET", origin |-> <<>>]
    /\ cors_pc = "idle"
    /\ cors_resp = NoCorsResponse
    /\ au_backend = [kind |-> "jwt", secret_key |-> SecretKey, algorithm |-> "HS256", token_prefix |-> "Bearer", verify |-> "none", exclude_paths |-> {}]
    /\ au_req = NoAuthRequest
    /\ rq_obj = "middleware"

SpecFiles ==
    /\ InitFiles
    /\ [][NextFiles]_vars

\* AuthMiddleware over a token or JWT backend
InitAuth ==
    /\ au_backend \in AuthBackends
    /\ au_req = NoAuthRequest
    \* the other components, as constructed
    /\ routes = <<>>
    /\ tree = EmptyTree
    /\ lookup = NoLookup
    /\ subrouters = <<>>
    /\ sub_routes = <<>>
    /\ tree_dirty = FALSE
    /\ include_pending = FALSE
    /\ now = 0
    /\ max_requests = 1
    /\ window = 1
    /\ requests = [ip \in {} |-> <<>>]
    /\ rl_req = <<>>
    /\ forwarded = [ip \in ClientIps |-> <<>>]
    /\ entrypoint = "handler"
    /\ n_startup = 0
    /\ n_shutdown = 0
    /\ inflight = 0
    /\ inflight_zero = TRUE
    /\ shutting_down = FALSE
    /\ ls_pc = "idle"
    /\ ls_i = 0
    /\ waiter = "none"
    /\ timed_out = FALSE
    /\ host = "lifespan.startup"
    /\ events = <<>>
    /\ task = [k \in Tasks |-> [pc |-> "new", via |-> "", outcome |-> ""]]
    /\ at_shutdown = {}
    /\ middleware = <<>>
    /\ chain = <<>>
    /\ built_from = <<>>
    /\ mw_pc = "idle"
    /\ mw_depth = 0
    /\ mw_at = 0
    /\ mw_msgs = <<>>
    /\ seen_request = <<>>
    /\ seen_response = <<>>
    /\ app_built = FALSE
    /\ csrf_req = NoCsrfRequest
    /\ csrf_pc = "idle"
    /\ csrf_token = ""
    /\ csrf_invoked = FALSE
    /\ csrf_resp = NoResponse
    /\ backend = "memory"
    /\ sessions = [k \in BackendIds |-> NoRecord]
    /\ be_result = NoCall
    /\ be_saved = [k \in BackendIds |-> NoRecord]
    /\ sm_clock = 0
    /\ sm_n = 0
    /\ sm_req = NoSessRequest
    /\ sm_sent = {}
    /\ sm_last = [k \in MintedIds |-> "none"]
    /\ rb_cfg = [sent |-> <<0>>, content_length |-> -1, max_body_size |-> 0]
    /\ rb_msgs = <<0>>
    /\ rb_body = NoBody
    /\ rb_consumed = FALSE
    /\ rb_pc = "idle"
    /\ rb_chunks = <<>>
    /\ rb_calls = 0
    /\ rb_ret = NoBody
    /\ rs_plan = [kind |-> "plain", chunks |-> 0, fail_at |-> -1, exc |-> "none"]
    /\ rs_pc = "idle"
    /\ rs_i = 0
    /\ rs_host = <<>>
    /\ to_timeout = 1
    /\ to_pc = "idle"
    /\ to_elapsed = 0
    /\ to_host = <<>>
    /\ to_deadline = FALSE
    /\ cors_cfg = CorsInit({<<"*">>}, FALSE, {})
    /\ cors_req = [method |-> "GET", origin |-> <<>>]
    /\ cors_pc = "idle"
    /\ cors_resp = NoCorsResponse
    /\ fs_files = [p \in FsPaths |-> NoFile]
    /\ fs_w = [w \in Workers |-> Idle]
    /\ fs_last = NoData
    /\ rq_obj = "middleware"

SpecAuth ==
    /\ InitAuth
    /\ [][NextAuth]_vars

\* a middleware's Request and then the handler's, over one receive
InitRequestChain ==
    /\ rb_cfg \in {r \in BodyRequests : r.content_length \in {-1, Total(r.sent)}}
    /\ rb_msgs = rb_cfg.sent
    /\ rb_body = NoBody
    /\ rb_consumed = FALSE
    /\ rb_pc = "idle"
    /\ rb_chunks = <<>>
    /\ rb_calls = 0
    /\ rb_ret = NoBody
    /\ rq_obj = "middleware"
    \* the other components, as constructed
    /\ routes = <<>>
    /\ tree = EmptyTree
    /\ lookup = NoLookup
    /\ subrouters = <<>>
    /\ sub_routes = <<>>
    /\ tree_dirty = FALSE
    /\ include_pending = FALSE
    /\ now = 0
    /\ max_requests = 1
    /\ window = 1
    /\ requests = [ip \in {} |-> <<>>]
    /\ rl_req = <<>>
    /\ forwarded = [ip \in ClientIps |-> <<>>]
    /\ entrypoint = "handler"
    /\ n_startup = 0
    /\ n_shutdown = 0
    /\ inflight = 0
    /\ inflight_zero = TRUE
    /\ shutting_down = FALSE
    /\ ls_pc = "idle"
    /\ ls_i = 0
    /\ waiter = "none"
    /\ timed_out = FALSE
    /\ host = "lifespan.startup"
    /\ events = <<>>
    /\ task = [k \in Tasks |-> [pc |-> "new", via |-> "", outcome |-> ""]]
    /\ at_shutdown = {}
    /\ middleware = <<>>
    /\ chain = <<>>
    /\ built_from = <<>>
    /\ mw_pc = "idle"
    /\ mw_depth = 0
    /\ mw_at = 0
    /\ mw_msgs = <<>>
    /\ seen_request = <<>>
    /\ seen_response = <<>>
    /\ app_built = FALSE
    /\ csrf_req = NoCsrfRequest
    /\ csrf_pc = "idle"
    /\ csrf_token = ""
    /\ csrf_invoked = FALSE
    /\ csrf_resp = NoResponse
    /\ backend = "memory"
    /\ sessions = [k \in BackendIds |-> NoRecord]
    /\ be_result = NoCall
    /\ be_saved = [k \in BackendIds |-> NoRecord]
    /\ sm_clock = 0
    /\ sm_n = 0
    /\ sm_req = NoSessRequest
    /\ sm_sent = {}
    /\ sm_last = [k \in MintedIds |-> "none"]
    /\ rs_plan = [kind |-> "plain", chunks |-> 0, fail_at |-> -1, exc |-> "none"]
    /\ rs_pc = "idle"
    /\ rs_i = 0
    /\ rs_host = <<>>
    /\ to_timeout = 1
    /\ to_pc = "idle"
    /\ to_elapsed = 0
    /\ to_host = <<>>
    /\ to_deadline = FALSE
    /\ cors_cfg = CorsInit({<<"*">>}, FALSE, {})
    /\ cors_req = [method |-> "GET", origin |-> <<>>]
    /\ cors_pc = "idle"
    /\ cors_resp = NoCorsResponse
    /\ fs_files = [p \in FsPaths |-> NoFile]
    /\ fs_w = [w \in Workers |-> Idle]
    /\ fs_last = NoData
    /\ au_backend = [kind |-> "jwt", secret_key |-> SecretKey, algorithm |-> "HS256", token_prefix |-> "Bearer", verify |-> "none", exclude_paths |-> {}]
    /\ au_req = NoAuthRequest

SpecRequestChain ==
    /\ InitRequestChain
    /\ [][NextRequestChain]_vars

\* ========================================================================
\* Properties
\* ========================================================================

\* ---- rate limiter ----
\* the number of the first n requests forwarded for ip whose timestamp lies in
\* (t - window_seconds, t]
ForwardedInWindow(ip, n, t) ==
    Cardinality({j \in 1..n : forwarded[ip][j] > t - window * TicksPerSec})

IsSent(ev, type) == ev.e = "send" /\ ev.what = type

HasSent(type) == \E i \in 1..Len(events) : IsSent(events[i], type)

\* C2: when the drain did not time out, lifespan.shutdown.complete is sent only
\* once every request that was running when lifespan.shutdown was received
\* has finished.
C2_DrainWaitsForInflight ==
    \A i \in 1..Len(events) :
        IsSent(events[i], "lifespan.shutdown.complete") /\ ~timed_out
            => events[i].running \cap at_shutdown = {}

\* the same, for the requests that went through LifespanProtocolHandler.__call__
DrainWaitsForHandlerRequests ==
    \A i \in 1..Len(events) :
        IsSent(events[i], "lifespan.shutdown.complete") /\ ~timed_out
            => \A k \in events[i].running \cap at_shutdown : task[k].via # "handler"

\* C3: inflight_requests is the number of requests dispatched to the handler
\* that have not finished (returned, raised or been cancelled), and is never
\* negative.
C3_InflightCountsRunning ==
    /\ inflight = Cardinality({k \in Tasks : task[k].pc = "running" /\ task[k].via = "handler"})
    /\ inflight >= 0

\* a request of the handler ended by raising while another is still running
C3_Witness ==
    \E j, k \in Tasks :
        /\ task[j].via = "handler" /\ task[j].outcome = "raised"
        /\ task[k].via = "handler" /\ task[k].pc = "running"
        /\ inflight = 1

\* C4: while a request dispatched through Thor.__call__ is running, the
\* in-flight counter the shutdown drain consults is at least 1.
C4_ThorRequestsCounted ==
    \A k \in Tasks : task[k].pc = "running" /\ task[k].via = "thor" => inflight >= 1

\* C5: once lifespan.shutdown is received, lifespan.shutdown.complete is
\* eventually sent, whatever the requests do; with no request in flight it is
\* sent at once; and when the drain times out with requests of the shutdown
\* moment still running, it proceeds with the in-flight counter at least 1.
C5_BoundedShutdown ==
    /\ shutting_down ~> HasSent("lifespan.shutdown.complete")
    /\ [][(~shutting_down /\ shutting_down' /\ inflight = 0)
              => HasSent("lifespan.shutdown.complete")']_vars
    /\ [][(~timed_out /\ timed_out' /\ at_shutdown \cap Running # {})
              => inflight' >= 1 /\ HasSent("lifespan.shutdown.complete")']_vars

\* the drain timed out and shutdown.complete went out with a request of the
\* shutdown moment still running
C5_Witness ==
    /\ timed_out
    /\ at_shutdown \cap Running # {}
    /\ \E i \in 1..Len(events) :
           IsSent(events[i], "lifespan.shutdown.complete") /\ events[i].n >= 1

\* C6: when a startup handler has raised and the lifespan task has ended,
\* lifespan.startup.failed has been sent and lifespan.startup.complete has not.
C6_StartupFailureReported ==
    (ls_pc = "raised" /\ \E i \in 1..Len(events) : events[i].e = "startup_raised")
        => /\ HasSent("lifespan.startup.failed")
           /\ ~HasSent("lifespan.startup.complete")

\* C7: when lifespan.shutdown.complete is sent, all shutdown handlers have run.
C7_HandlersBeforeComplete ==
    \A i \in 1..Len(events) :
        IsSent(events[i], "lifespan.shutdown.complete")
            => Cardinality({j \in 1..(i - 1) : events[j].e = "shutdown"}) = n_shutdown

\* ---- middleware chain ----
IsPrefix(s, t) == Len(s) <= Len(t) /\ SubSeq(t, 1, Len(s)) = s

\* C8: a request is seen by the middleware in registration order, first-added
\* first, and by all of them before the terminal handler; every response
\* message that has reached the host adapter was seen in the reverse order, by
\* the wrappers the responder is inside, last-added first.
C8_MiddlewareOrder ==
    /\ IsPrefix(seen_request, Append(built_from, "handler"))
    /\ "handler" \in Range(seen_request) => mw_depth = Len(built_from)
    /\ \A i \in 1..Len(seen_response) :
           (i < Len(seen_response) \/ mw_pc # "send")
               => seen_response[i] = Reverse(SubSeq(built_from, 1, mw_depth))

\* a request went through two different middleware to the handler and the
\* whole response came back
C8_Witness ==
    /\ mw_pc = "idle"
    /\ seen_request = <<"A", "B", "handler">>
    /\ seen_response = << <<"B", "A">>, <<"B", "A">> >>

\* ---- router ----
RECURSIVE ScanFrom(_, _, _, _, _)
\* the linear scan: the first route, in registration order, whose Route.match
\* accepts the path and whose methods hold the method; method-not-allowed when
\* only the path matched, not-found when nothing did
ScanFrom(rs, i, path, method, path_matched) ==
    IF i > Len(rs)
    THEN Failure(IF path_matched THEN "method_not_allowed" ELSE "not_found")
    ELSE LET m == RouteMatch(rs[i], path)
         IN  IF m.ok /\ method \in rs[i].methods
             THEN [kind |-> "ok", route |-> i, params |-> m.params]
             ELSE ScanFrom(rs, i + 1, path, method, path_matched \/ m.ok)

LinearScan(rs, path, method) == ScanFrom(rs, 1, path, method, FALSE)

\* C9: a lookup gives what the linear scan of the registered routes gives.
C9_RadixEqualsLinearScan ==
    lookup # NoLookup
        => lookup.result = LinearScan(routes, lookup.path, lookup.method)

IsStaticRoute(r) == \A i \in 1..Len(r.path) : ~IsParam(r.path[i])

\* route i matches the path looked up and allows its method
Accepts(i) ==
    /\ RouteMatch(routes[i], lookup.path).ok
    /\ lookup.method \in routes[i].methods

\* C10: when a static route and a parametric route both match the path and
\* allow the method, the lookup returns a static route matching the path, with
\* no parameter, whatever the order of registration.
C10_StaticPrecedence ==
    (/\ lookup # NoLookup
     /\ \E i, j \in 1..Len(routes) :
            /\ Accepts(i) /\ IsStaticRoute(routes[i])
            /\ Accepts(j) /\ ~IsStaticRoute(routes[j]))
        => /\ lookup.result.kind = "ok"
           /\ IsStaticRoute(routes[lookup.result.route])
           /\ Accepts(lookup.result.route)
           /\ lookup.result.params = NoParams

\* the parametric route was registered first and the static one was returned
C10_Witness ==
    /\ lookup # NoLookup
    /\ \E i, j \in 1..Len(routes) :
           /\ j < i
           /\ Accepts(i) /\ IsStaticRoute(routes[i])
           /\ Accepts(j) /\ ~IsStaticRoute(routes[j])
           /\ lookup.result.route = i

\* C11: a lookup that fails reports method-not-allowed exactly when the path
\* of at least one registered route matches the path looked up, and not-found
\* otherwise.
C11_MethodNotAllowedIffPathMatches ==
    (lookup # NoLookup /\ lookup.result.kind # "ok")
        => (lookup.result.kind = "method_not_allowed"
                <=> \E i \in 1..Len(routes) : RouteMatch(routes[i], lookup.path).ok)

\* ---- sub-routers ----
\* C12: the first lookup after include_router searches a tree rebuilt from the
\* flattened route list, whatever was registered on the root router in between.
C12_LookupAfterIncludeRebuilds ==
    [][(include_pending /\ lookup = NoLookup /\ lookup' # NoLookup)
           => tree' = RebuildTree]_vars

\* C13: a lookup whose path and method fit a route listed by Router.routes
\* succeeds.
C13_ListedRoutesResolve ==
    (/\ lookup # NoLookup
     /\ \E m \in 1..Len(FlatRoutes) :
            /\ RouteMatch(RouteTable[FlatRoutes[m]], lookup.path).ok
            /\ lookup.method \in RouteTable[FlatRoutes[m]].methods)
        => lookup.result.kind = "ok"

\* ---- CSRF ----
\* the request is subject to validation: unsafe method, path not excluded
CsrfGuarded(req) == req.method \notin SAFE_METHODS /\ ~Excluded(req)

\* the request carries a CSRF cookie and a submitted token (the header, or a
\* _csrf_token field of a URL-encoded body) equal to the cookie's value
CarriesMatchingToken(req) ==
    /\ req.cookie # ""
    /\ \/ req.header = req.cookie
       \/ /\ req.content_type = "application/x-www-form-urlencoded; charset=utf-8"
          /\ req.cookie \in Range(req.form)

\* C14: for an unsafe method on a path that is not excluded, the downstream
\* app is called only if the request carries a cookie and an equal submitted
\* token, and once process has ended for a request that does not, the app was
\* not called and the response is 403; safe-method and excluded-path requests
\* are always forwarded.
C14_CsrfGate ==
    /\ (csrf_invoked /\ CsrfGuarded(csrf_req)) => CarriesMatchingToken(csrf_req)
    /\ (CsrfGuarded(csrf_req) /\ ~CarriesMatchingToken(csrf_req))
           => /\ ~csrf_invoked
              /\ csrf_pc \in {"done", "raised"} => csrf_resp.status = 403
    /\ (csrf_pc # "idle" /\ ~CsrfGuarded(csrf_req)) => csrf_invoked
    /\ (csrf_pc = "done" /\ ~CsrfGuarded(csrf_req)) => csrf_resp.status # 403

\* C15: the response to a request that went through validation carries a
\* Set-Cookie with the current token, the 403 rejection included.
C15_CookieOnEveryResponse ==
    (csrf_pc = "done" /\ CsrfGuarded(csrf_req)) => csrf_resp.set_cookie = csrf_token

\* ---- session backends ----
\* C18: on either backend, load(id) returns none when no save(id, r) is in
\* effect (never saved, or deleted since), and otherwise a record with the
\* data and created_at of the last r saved under id.
C18_BackendRoundTrip ==
    be_result.op = "load" =>
        IF be_saved[be_result.id] = NoRecord
        THEN be_result.out = "none"
        ELSE /\ be_result.out = "record"
             /\ be_result.record.data = be_saved[be_result.id].data
             /\ be_result.record.created_at = be_saved[be_result.id].created_at

\* ---- session middleware ----
\* the request carries, unaltered, the cookie c issued in an earlier response
PresentsCookie(c) == sm_req.cookie = [ts |-> c.ts, id |-> c.id, sig |-> <<c.ts, c.id>>]

\* C16: a request that carries the cookie issued in the response of a request
\* whose handler set the session value to v, no more than max_age after that
\* response and with no later assignment of another value, reaches its
\* handler with the session value equal to v.
C16_SessionRoundTrip ==
    \A c \in sm_sent :
        (/\ sm_req.pc = "handler"
         /\ PresentsCookie(c)
         /\ c.v # "none"
         /\ sm_req.at - c.at <= SessMaxAge * TicksPerSec
         /\ sm_last[c.id] = c.v)
            => sm_req.seen = c.v

\* C17: the request's session uses the id of its cookie only if the cookie's
\* signature is the server's for that timestamp and id, the timestamp is not
\* older than max_age, and the backend held a record under that id;
\* otherwise the session has another, fresh id and starts empty.
C17_SessionIdAccepted ==
    sm_req.pc # "idle" =>
        IF sm_req.id = sm_req.cookie.id
        THEN /\ \E c \in sm_sent : PresentsCookie(c)
             /\ sm_req.at - sm_req.cookie.ts * TicksPerSec <= SessMaxAge * TicksPerSec
             /\ sm_req.held
        ELSE /\ sm_req.seen = "none"
             /\ ~sm_req.aliased
             /\ \A c \in sm_sent : c.id = sm_req.id => c.at >= sm_req.at

\* a cookie with the server's signature, too old, for a session the backend
\* holds: the request ran with a fresh id
C17_Witness ==
    /\ sm_req.pc = "handler"
    /\ \E c \in sm_sent : PresentsCookie(c)
    /\ sm_req.held
    /\ sm_req.id # sm_req.cookie.id

\* ---- Request.body ----
\* C19: for a request whose body is longer than a max_body_size > 0, no
\* call of body() returns bytes, a call repeated after a failure included.
C19_OversizeBodyNeverReturned ==
    (rb_cfg.max_body_size > 0 /\ Total(rb_cfg.sent) > rb_cfg.max_body_size)
        => rb_pc # "returned"

\* ---- response emission ----
\* C20: the host receives at most one http.response.start for a request, no
\* http.response.body before it, and exactly one once the request is done.
C20_OneStartBeforeBody ==
    LET starts == {i \in 1..Len(rs_host) : rs_host[i].type = "http.response.start"}
    IN  /\ Cardinality(starts) <= 1
        /\ rs_host # <<>> => rs_host[1].type = "http.response.start"
        /\ rs_pc = "done" => Cardinality(starts) = 1

\* ---- the chain of a Thor application ----
\* C22: every response message that has reached the host adapter went
\* through the send wrapper of the error handler, which puts the request's
\* X-Request-Id on an http.response.start: whoever answered, the handler, a
\* user-added middleware or the error handler itself.
C22_RequestIdOnEveryStart ==
    \A i \in 1..Len(seen_response) :
        (i < Len(seen_response) \/ mw_pc # "send")
            => "ErrorHandlerMiddleware" \in Range(seen_response[i])

\* a user-added middleware answered and its two messages came out through
\* the error handler
C22_Witness ==
    /\ mw_pc = "idle"
    /\ seen_request = <<"ErrorHandlerMiddleware", "A">>
    /\ seen_response = << <<"ErrorHandlerMiddleware">>, <<"ErrorHandlerMiddleware">> >>

\* C24: a request is dispatched to a chain built from exactly the middleware
\* registered at that moment, in registration order outermost first, the
\* default error handler before all others.
C24_ChainMatchesRegistration ==
    [][(mw_pc = "idle" /\ mw_pc' = "request")
           => /\ built_from' = middleware
              /\ chain' = middleware
              /\ Head(chain') = "ErrorHandlerMiddleware"]_vars

\* a request runs on a chain of the error handler and two middleware added
\* one after the other
C24_Witness ==
    /\ mw_pc = "request"
    /\ app_built
    /\ middleware = <<"ErrorHandlerMiddleware", "A", "B">>
    /\ built_from = middleware

\* ---- TimeoutMiddleware ----
\* C21: when the timeout middleware's deadline has elapsed, no message of the
\* timed-out downstream chain has reached the host: everything the host has
\* received for the request belongs to the 504 response of the error handler.
C21_OnlyGatewayTimeout ==
    to_deadline => \A i \in 1..Len(to_host) : to_host[i].status = 504

\* C27: a cancellation of the request task passes through the error handler
\* without any message being emitted, and a 504 response is started only when
\* the timeout middleware's own deadline elapsed.
C27_OnlyOwnDeadline ==
    /\ [][to_pc # "cancelled" /\ to_pc' = "cancelled" => to_host' = to_host]_vars
    /\ [](\A i \in 1..Len(to_host) : to_host[i].status = 504 => to_deadline)

\* ---- order of the lifespan handlers ----
\* the numbers of the handlers run so far, in the order they ran
HandlersRun(es) == [i \in 1..Len(SelectSeq(events, LAMBDA ev : ev.e \in es)) |->
                        SelectSeq(events, LAMBDA ev : ev.e \in es)[i].n]

C26_VaryOrigin ==
    \A i \in 1..Len(cors_resp.headers) :
        (/\ cors_resp.headers[i].name = "access-control-allow-origin"
         /\ cors_resp.headers[i].value # <<"*">>)
            => \E j \in 1..Len(cors_resp.headers) : cors_resp.headers[j] = Header("vary", "Origin")

\* a preflight answered with the origin reflected through a wildcard
\* subdomain entry, by a middleware that allows credentials
C26_Witness ==
    /\ cors_pc = "done"
    /\ cors_resp.status = 204
    /\ cors_cfg.allow_credentials
    /\ \E i \in 1..Len(cors_resp.headers) :
           /\ cors_resp.headers[i].name = "access-control-allow-origin"
           /\ cors_resp.headers[i].value = <<"https://foo", ".example.com">>

\* ---- FileSessionBackend in a shared directory ----
\* C28: the session file never holds a partially written record, and what a
\* load reads from it, whatever saves of other workers it overlaps, is a
\* complete record.
C28_AtomicWrite ==
    /\ fs_files[TargetPath].exists => fs_files[TargetPath].complete
    /\ \A w \in Workers :
           fs_w[w].read.exists => fs_w[w].read.complete /\ fs_w[w].read.data \in FsData

\* a load has read the previous record while another worker's save of a
\* different record had written its temp file and not yet renamed it
C28_Witness ==
    \E w, v \in Workers :
        /\ fs_w[w].pc = "save_mkstemp" /\ fs_w[w].internal
        /\ fs_w[w].read.data = "r0"
        /\ fs_w[v].pc = "save_replace" /\ ~fs_w[v].internal
        /\ fs_w[v].rec.data = "r1"

\* C29: once every call has finished, the stored data is what the last
\* save(id, r) or delete(id) of a caller established: the record's data, or
\* no file.
C29_LoadKeepsStoredState ==
    (\A w \in Workers : fs_w[w].pc = "idle") => fs_files[TargetPath].data = fs_last

C31_SaveOnlyWhenModified ==
    [][(sm_req.pc = "handler" /\ sm_req'.pc \in {"done", "raised"}) => ~sm_req'.saved]_vars

\* C32: when a request has failed before any response start passed through
\* the session middleware, the backend holds for its session id the record
\* it held when the request's session was loaded.
C32_FailedRequestLeavesStore ==
    sm_req.pc = "failed" => sessions[sm_req.id] = sm_req.stored

\* ---- the quiescent signal and the drain ----
\* C33: _inflight_zero is set exactly when _inflight is zero.
C33_SignalIffZero ==
    inflight_zero <=> inflight = 0

\* one request of the handler has finished and another is running, the
\* signal cleared; and the counter is back at zero with the signal set
C33_Witness ==
    /\ entrypoint = "handler"
    /\ \E j, k \in Tasks :
           /\ task[j].via = "handler" /\ task[j].pc = "done"
           /\ task[k].via = "handler" /\ task[k].pc = "running"
    /\ inflight = 1
    /\ ~inflight_zero

\* C34: when the drain has not timed out, lifespan.shutdown.complete is sent
\* with the in-flight counter at zero, whatever requests were dispatched to
\* the handler after lifespan.shutdown was received.
C34_ZeroAtShutdownComplete ==
    \A i \in 1..Len(events) :
        IsSent(events[i], "lifespan.shutdown.complete") /\ ~timed_out
            => events[i].n = 0

\* ---- the stored timestamps ----
\* C35: right after the rate limiter has decided a request of a client,
\* forwarded or rejected, every timestamp stored for that client is greater
\* than now - window_seconds and the stored list has at most max_requests
\* entries.
C35_StoredWithinWindow ==
    [][Len(rl_req') = Len(rl_req) + 1
          => LET r == rl_req'[Len(rl_req')]
                 ts == IF r.client \in DOMAIN requests' THEN requests'[r.client] ELSE <<>>
             IN  /\ Len(ts) <= max_requests
                 /\ \A i \in 1..Len(ts) : ts[i] > now' - window * TicksPerSec]_vars

\* a client's request has just been rejected, after an earlier timestamp of
\* that client had left the window and had been pruned on a forwarded request
C35_Witness ==
    /\ rl_req # <<>>
    /\ LET r == rl_req[Len(rl_req)]
       IN  /\ r.status = 429
           /\ r.at = now
           /\ r.pc = "send429"
           /\ r.client \in DOMAIN requests
           /\ Len(requests[r.client]) < Len(forwarded[r.client])

\* C36: after a 429 with Retry-After = r answered to a client at time t, the
\* client's next request, made at or after t + r seconds, is forwarded.
C36_RetryAfterSufficient ==
    \A i, j \in 1..Len(rl_req) :
        (/\ i < j
         /\ rl_req[i].client = rl_req[j].client
         /\ rl_req[i].status = 429
         /\ \A k \in (i + 1)..(j - 1) : rl_req[k].client # rl_req[i].client
         /\ rl_req[j].at >= rl_req[i].at + rl_req[i].retry_after * TicksPerSec)
            => rl_req[j].app_called

\* a client answered 429 some time after its forwarded request came back
\* exactly Retry-After seconds later and was forwarded
C36_Witness ==
    \E i, j \in 1..Len(rl_req) :
        /\ i < j
        /\ rl_req[i].client = rl_req[j].client
        /\ rl_req[i].status = 429
        /\ \A k \in (i + 1)..(j - 1) : rl_req[k].client # rl_req[i].client
        /\ rl_req[j].at = rl_req[i].at + rl_req[i].retry_after * TicksPerSec
        /\ rl_req[j].app_called
        /\ rl_req[i].at > forwarded[rl_req[i].client][1]

\* ---- authentication ----
\* C37: whatever the Authorization header, AuthMiddleware.process does not
\* end with an exception of the backend: authenticate returns a user or the
\* anonymous user and the request is forwarded with scope["user"] set.
C37_AuthNeverRaises ==
    au_req.pc # "idle"
        => /\ au_req.pc # "raised"
           /\ au_req.app_called
           /\ au_req.user # NoUser

\* ---- CORS with credentials ----
\* C38: a response that carries Access-Control-Allow-Credentials: true
\* carries Access-Control-Allow-Origin only with the request's origin, and
\* only when that origin is in allow_origins, ends with the suffix of a
\* wildcard-subdomain entry or is matched in full by allow_origin_regex.
C38_CredentialsOnlyForListedOrigins ==
    (\E j \in 1..Len(cors_resp.headers) :
         cors_resp.headers[j] = Header("access-control-allow-credentials", "true"))
        => \A i \in 1..Len(cors_resp.headers) :
               cors_resp.headers[i].name = "access-control-allow-origin"
                   => /\ cors_resp.headers[i].value = cors_req.origin
                      /\ \/ cors_req.origin \in cors_cfg.allow_origins
                         \/ \E suffix \in cors_cfg.wildcard_origins :
                                EndsWith(cors_req.origin, suffix)
                         \/ cors_req.origin \in cors_cfg.regex

\* ---- the body seen by the handler ----
\* C39: the first body() call of the route handler on its Request returns
\* the bytes the client sent, also when a middleware read the body before,
\* and does not ask the adapter for a message after it delivered the last
\* one.
C39_HandlerReadsWholeBody ==
    (rq_obj = "handler" /\ rb_calls = 1)
        => /\ rb_pc = "returned" => Total(rb_ret) = Total(rb_cfg.sent)
           /\ ~(rb_pc = "reading" /\ rb_msgs = <<>>)

\* ---- the parameters of the matched route ----
\* the parametric segments of a route's own template
Declared(route) == {route.path[i] : i \in {j \in 1..Len(route.path) : IsParam(route.path[j])}}

\* C40: a successful lookup returns a parameter map whose names are exactly
\* those declared in the returned route's own template, the value of each
\* being a single segment that satisfies the type the route declares for it,
\* converted as that type.
C40_ParamsOfMatchedRoute ==
    (lookup # NoLookup /\ lookup.result.kind = "ok")
        => LET route == routes[lookup.result.route]
               params == lookup.result.params
           IN  /\ DOMAIN params = {t.name : t \in Declared(route)}
               /\ \A t \in Declared(route) :
                      /\ Len(params[t.name][2]) = 1
                      /\ TypeMatches(ParamType(t), params[t.name][2][1])
                      /\ params[t.name] = Convert(ParamType(t), params[t.name][2])

====
